---- MODULE Spec2Model ----
(***************************************************************************)
(* Model of the task deduplication-and-ordering engine of genesis:         *)
(* the TaskRegistry class (packages/core/src/execution/task-registry.ts,   *)
(* kept here as src/unnamed/part_008), the plugin execution graph          *)
(* (buildPluginGraph) and the lifecycle orchestrator (runDetect, runApply, *)
(* runValidate) of packages/core/src/plugins/executor.ts.                  *)
(*                                                                         *)
(* executeAll is an async function: it runs synchronously up to each       *)
(* `await state.task.executor()`, and resumes when the executor's promise  *)
(* settles.  pc records where the one executeAll call of a run stands.     *)
(***************************************************************************)
EXTENDS Integers, Sequences, FiniteSets, TLC

(* ---------------------------------------------------------------- bounds *)

\* highest priority a caller passes; a priority is 1..MaxPriority, or is left
\* out and then counts as 0
MaxPriority == 1
\* longest dependsOn list a caller passes
MaxDeps == 2
\* most dependsOn entries held by the registry as a whole
MaxEdges == 2
\* most register calls made on one registry
MaxRegs == 3
\* most plugin execution nodes loaded for one run
MaxNodes == 3
\* longest dependsOn list a plugin declares
MaxPluginDeps == 2
\* most dependsOn entries declared by the loaded plugins as a whole
MaxPluginEdges == 3
\* most plugins of a configuration the orchestrator is run on
MaxPlugins == 2

\* most register calls made on a registry that is cleared and run again
MaxReuseRegs == 2
\* most executeAll calls made on one registry
MaxRuns == 2
\* most clear calls made on one registry
MaxClears == 1

\* most register calls made after executeAll was called
MaxLateRegs == 1

(* ------------------------------------------------------------ input sets *)

\* the task ids callers use (TaskId = string)
TaskIds == {"A", "B", "C"}

\* an optional field (`priority?`, `dependsOn?`, `result?`, `error?`) is a
\* sequence of length 0 (left out) or 1 (present)
Undefined == <<>>

Some(x) == <<x>>

\* `opt ?? default`
OrElse(opt, default) == IF opt = Undefined THEN default ELSE opt[1]

Priorities == {Some(p) : p \in 1..MaxPriority} \cup {Undefined}

\* the lists of distinct task ids of length 1..MaxDeps
RECURSIVE DepListsOfLen(_)
DepListsOfLen(n) ==
  IF n = 0 THEN {<<>>}
  ELSE {Append(s, d) : s \in DepListsOfLen(n - 1), d \in TaskIds}

NoRepeat(s) == \A i, j \in 1..Len(s) : i # j => s[i] # s[j]

DepLists ==
  {Undefined} \cup
  {Some(s) : s \in {t \in UNION {DepListsOfLen(n) : n \in 1..MaxDeps} : NoRepeat(t)}}

\* the plugin ids a configuration uses (GenesisPluginInstance.id)
PluginIds == {"node", "python", "git"}

\* the lists of plugin ids of length n
RECURSIVE PluginDepListsOfLen(_)
PluginDepListsOfLen(n) ==
  IF n = 0 THEN {<<>>}
  ELSE {Append(s, d) : s \in PluginDepListsOfLen(n - 1), d \in PluginIds}

\* GenesisPlugin.dependsOn?: left out, or a list of distinct ids of length
\* 1..MaxPluginDeps
PluginDepLists ==
  {Undefined} \cup
  {Some(s) : s \in {t \in UNION {PluginDepListsOfLen(n) : n \in 1..MaxPluginDeps} :
                      NoRepeat(t)}}

\* the lifecycle methods of GenesisPlugin, all optional
Methods == {"detect", "registerTasks", "apply", "validate"}

\* the lifecycle methods a loaded plugin defines: all of them, none, all but
\* registerTasks, or registerTasks alone
MethodSets == {Methods, {}, Methods \ {"registerTasks"}, {"registerTasks"}}

\* the ids of the system tasks the plugins register
SystemTaskIds == {"update", "install-curl", "install-py"}

\* what an executor's promise can settle to: it resolves with ok = true,
\* resolves with ok = false, or rejects
Outcomes == {"ok", "notok", "throw"}

\* what the promise of registerTasks (Promise<void>) can settle to
RegisterOutcomes == {"ok", "throw"}

(* ----------------------------------------------------------------- state *)

VARIABLES
  tasks,        \* Map<TaskId, TaskState>: the entries, by id
  keys,         \* the Map's keys in insertion order
  pc,           \* executeAll: "idle" (not in a call), "loop", "await"
  sortedTasks,  \* executeAll's local: the order topologicalSort returned
  idx,          \* executeAll's local: position of the for-of loop in sortedTasks
  results,      \* executeAll's local: the Map it will return
  returned,     \* what the last executeAll call returned or threw
  invoked,      \* history: the executors invoked, in order, as <<id, executor>>
  runs,         \* history: number of executeAll calls made
  nregs,        \* history: number of register calls made
  clears,       \* history: number of clear calls made
  nodes,        \* PluginExecutionNode[]: the nodes loadPlugins has pushed
  graph,        \* what buildPluginGraph returned or threw for nodes
  op,           \* the orchestrator function called: runDetect, runApply, runValidate
  phase,        \* where that call stands
  pos,          \* its local: position of the current for-of loop in the nodes
  inCall,       \* whether it awaits a lifecycle method of the node at pos
  summaries,    \* its local: the result array it will return
  todo,         \* the tasks the registerTasks call in progress has yet to register
  calls         \* history: calls, returns and throws of lifecycle methods and executeAll

regVars == <<tasks, keys, pc, sortedTasks, idx, results, returned, invoked, runs, nregs,
             clears>>

graphVars == <<nodes, graph>>

orchVars == <<op, phase, pos, inCall, summaries, todo, calls>>

vars == <<tasks, keys, pc, sortedTasks, idx, results, returned, invoked, runs, nregs,
          clears,
          nodes, graph, op, phase, pos, inCall, summaries, todo, calls>>

(* ------------------------------------------------------- Task, TaskResult *)

\* interface Task, as a caller builds it: the caller's own description and
\* executor closure are named after the caller
Task(id, caller, priority, dependsOn) ==
  [id |-> id, description |-> caller, executor |-> caller,
   priority |-> priority, dependsOn |-> dependsOn]

\* the callers of register: the first to register an id, and any caller that
\* registers the id again with a description and an executor of its own
FirstCaller == "first"

LaterCaller == "later"

\* `state.task.dependsOn ?? []`
Deps(ts, id) == OrElse(ts[id].task.dependsOn, <<>>)

\* `this.tasks.get(x)?.task.priority ?? 0`
PriorityOf(ts, id) == IF id \in DOMAIN ts THEN OrElse(ts[id].task.priority, 0) ELSE 0

\* the result executeAll stores for a task it skips
DependenciesFailed == [ok |-> FALSE, error |-> "Dependencies failed"]

\* the TaskResult an executor resolves with
ExecutorResult(outcome) ==
  IF outcome = "ok" THEN [ok |-> TRUE, error |-> "none"]
  ELSE [ok |-> FALSE, error |-> "executor error"]

\* the message of the Error an executor rejects with
ThrownMessage == "executor threw"

\* the result executeAll's catch block builds
CaughtResult == [ok |-> FALSE, error |-> ThrownMessage]

EmptyMap == [x \in {} |-> Undefined]

(* -------------------------------------------------------------- observers *)

\* has(taskId)
Has(ts, taskId) == taskId \in DOMAIN ts

\* getStatus that answers "pending" for an id it does not know
GetStatusUnknownIsPending(ts, taskId) ==
  IF taskId \in DOMAIN ts THEN ts[taskId].status ELSE "pending"

\* getStatus(taskId): `state?.status ?? "not-found"`
GetStatus(ts, taskId) ==
  IF taskId \in DOMAIN ts THEN ts[taskId].status ELSE "not-found"

\* getResult that answers only for a completed task
GetResultOfCompleted(ts, taskId) ==
  IF taskId \in DOMAIN ts /\ ts[taskId].status = "completed"
  THEN ts[taskId].result ELSE Undefined

\* getResult(taskId): `state?.result`
GetResult(ts, taskId) ==
  IF taskId \in DOMAIN ts THEN ts[taskId].result ELSE Undefined

(* ------------------------------------------------------ topologicalSort *)

\* Array.prototype.sort with (a, b) => priorityB - priorityA: a stable sort,
\* so `id` goes behind every element whose priority is not lower
RECURSIVE InsertByPriority(_, _, _)

\* the comparator turned round: (a, b) => priorityA - priorityB
InsertAscending(ts, sorted, id) ==
  IF sorted = <<>> THEN <<id>>
  ELSE IF PriorityOf(ts, id) - PriorityOf(ts, Head(sorted)) >= 0
       THEN <<Head(sorted)>> \o InsertByPriority(ts, Tail(sorted), id)
       ELSE <<id>> \o sorted

\* a sort that is not stable: `id` goes before the elements of its priority
InsertUnstable(ts, sorted, id) ==
  IF sorted = <<>> THEN <<id>>
  ELSE IF PriorityOf(ts, Head(sorted)) - PriorityOf(ts, id) > 0
       THEN <<Head(sorted)>> \o InsertByPriority(ts, Tail(sorted), id)
       ELSE <<id>> \o sorted

InsertByPriority(ts, sorted, id) ==
  IF sorted = <<>> THEN <<id>>
  ELSE IF PriorityOf(ts, Head(sorted)) - PriorityOf(ts, id) >= 0
       THEN <<Head(sorted)>> \o InsertByPriority(ts, Tail(sorted), id)
       ELSE <<id>> \o sorted

\* topologicalSort without the sort by priority
SortMissing(ts, ks) == ks

RECURSIVE SortByPriority(_, _)
SortByPriority(ts, ks) ==
  IF ks = <<>> THEN <<>>
  ELSE InsertByPriority(ts, SortByPriority(ts, SubSeq(ks, 1, Len(ks) - 1)), ks[Len(ks)])

NoError == "none"

RECURSIVE Visit(_, _, _)
RECURSIVE VisitDeps(_, _, _)

\* visit without `if (visited.has(taskId)) return;`
VisitNoVisitedCheck(ts, s, taskId) ==
  IF s.error # NoError THEN s
  ELSE IF taskId \in s.temp THEN [s EXCEPT !.error = taskId]
  ELSE IF taskId \notin DOMAIN ts THEN s
  ELSE LET s1 == [s EXCEPT !.temp = @ \cup {taskId}]
           s2 == VisitDeps(ts, s1, Deps(ts, taskId))
       IN IF s2.error # NoError THEN s2
          ELSE [s2 EXCEPT !.temp = @ \ {taskId},
                          !.visited = @ \cup {taskId},
                          !.result = Append(@, taskId)]

\* visit that returns, instead of throwing, on a task that is in progress
VisitNoCycleCheck(ts, s, taskId) ==
  IF s.error # NoError THEN s
  ELSE IF taskId \in s.visited THEN s
  ELSE IF taskId \in s.temp THEN s
  ELSE IF taskId \notin DOMAIN ts THEN s
  ELSE LET s1 == [s EXCEPT !.temp = @ \cup {taskId}]
           s2 == VisitDeps(ts, s1, Deps(ts, taskId))
       IN IF s2.error # NoError THEN s2
          ELSE [s2 EXCEPT !.temp = @ \ {taskId},
                          !.visited = @ \cup {taskId},
                          !.result = Append(@, taskId)]

\* visit that pushes the task before it visits the dependencies
VisitPreOrder(ts, s, taskId) ==
  IF s.error # NoError THEN s
  ELSE IF taskId \in s.visited THEN s
  ELSE IF taskId \in s.temp THEN [s EXCEPT !.error = taskId]
  ELSE IF taskId \notin DOMAIN ts THEN s
  ELSE LET s1 == [s EXCEPT !.temp = @ \cup {taskId}, !.result = Append(@, taskId)]
           s2 == VisitDeps(ts, s1, Deps(ts, taskId))
       IN IF s2.error # NoError THEN s2
          ELSE [s2 EXCEPT !.temp = @ \ {taskId},
                          !.visited = @ \cup {taskId}]

\* visit that throws on a dependsOn id that is not in the registry
VisitThrowOnMissing(ts, s, taskId) ==
  IF s.error # NoError THEN s
  ELSE IF taskId \in s.visited THEN s
  ELSE IF taskId \in s.temp THEN [s EXCEPT !.error = taskId]
  ELSE IF taskId \notin DOMAIN ts THEN [s EXCEPT !.error = taskId]
  ELSE LET s1 == [s EXCEPT !.temp = @ \cup {taskId}]
           s2 == VisitDeps(ts, s1, Deps(ts, taskId))
       IN IF s2.error # NoError THEN s2
          ELSE [s2 EXCEPT !.temp = @ \ {taskId},
                          !.visited = @ \cup {taskId},
                          !.result = Append(@, taskId)]

\* the closure `visit` and its loop over deps; s carries result, visited,
\* temp and the id of a thrown "Cyclic task dependency detected" error
\* visit with one set of marks: an id met again is taken for a cycle, also
\* when its visit has ended
VisitOneMark(ts, s, taskId) ==
  IF s.error # NoError THEN s
  ELSE IF taskId \in s.temp THEN [s EXCEPT !.error = taskId]
  ELSE IF taskId \notin DOMAIN ts THEN s
  ELSE LET s1 == [s EXCEPT !.temp = @ \cup {taskId}]
           s2 == VisitDeps(ts, s1, Deps(ts, taskId))
       IN IF s2.error # NoError THEN s2
          ELSE [s2 EXCEPT !.visited = @ \cup {taskId},
                          !.result = Append(@, taskId)]

\* the loop of visit taking the last dependency first
VisitDepsLastFirst(ts, s, deps) ==
  IF deps = <<>> THEN s
  ELSE VisitDeps(ts, Visit(ts, s, deps[Len(deps)]), SubSeq(deps, 1, Len(deps) - 1))

Visit(ts, s, taskId) ==
  IF s.error # NoError THEN s
  ELSE IF taskId \in s.visited THEN s
  ELSE IF taskId \in s.temp THEN [s EXCEPT !.error = taskId]
  ELSE IF taskId \notin DOMAIN ts THEN s
  ELSE LET s1 == [s EXCEPT !.temp = @ \cup {taskId}]
           s2 == VisitDeps(ts, s1, Deps(ts, taskId))
       IN IF s2.error # NoError THEN s2
          ELSE [s2 EXCEPT !.temp = @ \ {taskId},
                          !.visited = @ \cup {taskId},
                          !.result = Append(@, taskId)]

\* `for (const depId of deps) visit(depId)`: the sets and the result after one
\* visit are one value, which the rest of the loop goes on from
VisitDeps(ts, s, deps) ==
  IF deps = <<>> THEN s
  ELSE CHOOSE after \in {VisitDeps(ts, next, Tail(deps)) :
                            next \in {Visit(ts, s, Head(deps))}} : TRUE

\* topologicalSort(): [result, error]; error # NoError means it threw
TopologicalSort(ts, ks) ==
  VisitDeps(ts, [result |-> <<>>, visited |-> {}, temp |-> {}, error |-> NoError],
            SortByPriority(ts, ks))

(* ------------------------------------------------------ buildPluginGraph *)

\* PluginExecutionNode: the instance of the configuration and the plugin its
\* module created; methods are the lifecycle methods the plugin defines
PluginExecutionNode(id, dependsOn, methods) ==
  [instance |-> [id |-> id],
   plugin |-> [dependsOn |-> dependsOn, methods |-> methods]]

\* `node.plugin.dependsOn ?? []`
GetDependencies(node) == OrElse(node.plugin.dependsOn, <<>>)

\* byId were `set` to leave an id alone that is in the Map already: of two
\* nodes with one id the earlier one stays
ByIdFirstWins(ns) ==
  [id \in {ns[i].instance.id : i \in 1..Len(ns)} |->
     ns[CHOOSE i \in 1..Len(ns) :
          /\ ns[i].instance.id = id
          /\ \A j \in 1..(i - 1) : ns[j].instance.id # id]]

\* byId after `for (const node of nodes) byId.set(node.instance.id, node)`:
\* of two nodes with one id the later one stays
ById(ns) ==
  [id \in {ns[i].instance.id : i \in 1..Len(ns)} |->
     ns[CHOOSE i \in 1..Len(ns) :
          /\ ns[i].instance.id = id
          /\ \A j \in (i + 1)..Len(ns) : ns[j].instance.id # id]]

NoGraphError == [type |-> "none", id |-> "none"]

\* `Cyclic plugin dependency involving '${id}'`
CyclicError(id) == [type |-> "cyclic", id |-> id]

\* `Missing plugin '${id}' referenced in dependency`
MissingError(id) == [type |-> "missing", id |-> id]

RECURSIVE GraphVisit(_, _, _)
RECURSIVE GraphVisitDeps(_, _, _)

\* visit that pushes the node before it visits the dependencies
GraphVisitPreOrder(byId, s, id) ==
  IF s.error # NoGraphError THEN s
  ELSE IF id \in s.perm THEN s
  ELSE IF id \in s.temp THEN [s EXCEPT !.error = CyclicError(id)]
  ELSE IF id \notin DOMAIN byId THEN [s EXCEPT !.error = MissingError(id)]
  ELSE LET s1 == [s EXCEPT !.temp = @ \cup {id}, !.result = Append(@, byId[id])]
           s2 == GraphVisitDeps(byId, s1, GetDependencies(byId[id]))
       IN IF s2.error # NoGraphError THEN s2
          ELSE [s2 EXCEPT !.temp = @ \ {id}, !.perm = @ \cup {id}]

\* visit that returns, instead of throwing, on a node that is in progress
GraphVisitNoCycleCheck(byId, s, id) ==
  IF s.error # NoGraphError THEN s
  ELSE IF id \in s.perm THEN s
  ELSE IF id \in s.temp THEN s
  ELSE IF id \notin DOMAIN byId THEN [s EXCEPT !.error = MissingError(id)]
  ELSE LET s1 == [s EXCEPT !.temp = @ \cup {id}]
           s2 == GraphVisitDeps(byId, s1, GetDependencies(byId[id]))
       IN IF s2.error # NoGraphError THEN s2
          ELSE [s2 EXCEPT !.temp = @ \ {id},
                          !.perm = @ \cup {id},
                          !.result = Append(@, byId[id])]

\* visit that returns, instead of throwing, on an id that byId does not hold
GraphVisitNoMissingCheck(byId, s, id) ==
  IF s.error # NoGraphError THEN s
  ELSE IF id \in s.perm THEN s
  ELSE IF id \in s.temp THEN [s EXCEPT !.error = CyclicError(id)]
  ELSE IF id \notin DOMAIN byId THEN s
  ELSE LET s1 == [s EXCEPT !.temp = @ \cup {id}]
           s2 == GraphVisitDeps(byId, s1, GetDependencies(byId[id]))
       IN IF s2.error # NoGraphError THEN s2
          ELSE [s2 EXCEPT !.temp = @ \ {id},
                          !.perm = @ \cup {id},
                          !.result = Append(@, byId[id])]

\* the closure `visit` of buildPluginGraph and its loop over the
\* dependencies; s carries result, temp, perm and the Error it threw
\* the loop of visit taking the last id first
GraphVisitDepsLastFirst(byId, s, ids) ==
  IF ids = <<>> THEN s
  ELSE GraphVisitDeps(byId, GraphVisit(byId, s, ids[Len(ids)]),
                      SubSeq(ids, 1, Len(ids) - 1))

GraphVisit(byId, s, id) ==
  IF s.error # NoGraphError THEN s
  ELSE IF id \in s.perm THEN s
  ELSE IF id \in s.temp THEN [s EXCEPT !.error = CyclicError(id)]
  ELSE IF id \notin DOMAIN byId THEN [s EXCEPT !.error = MissingError(id)]
  ELSE LET s1 == [s EXCEPT !.temp = @ \cup {id}]
           s2 == GraphVisitDeps(byId, s1, GetDependencies(byId[id]))
       IN IF s2.error # NoGraphError THEN s2
          ELSE [s2 EXCEPT !.temp = @ \ {id},
                          !.perm = @ \cup {id},
                          !.result = Append(@, byId[id])]

GraphVisitDeps(byId, s, ids) ==
  IF ids = <<>> THEN s
  ELSE GraphVisitDeps(byId, GraphVisit(byId, s, Head(ids)), Tail(ids))

\* no buildPluginGraph call was made yet
NotBuilt == [kind |-> "none", order |-> <<>>, error |-> NoGraphError]

\* buildPluginGraph(nodes): the array it returns, or the Error it throws
BuildPluginGraph(ns) ==
  LET s == GraphVisitDeps(ById(ns),
                          [result |-> <<>>, temp |-> {}, perm |-> {},
                           error |-> NoGraphError],
                          [i \in 1..Len(ns) |-> ns[i].instance.id])
  IN IF s.error # NoGraphError
     THEN [kind |-> "error", order |-> <<>>, error |-> s.error]
     ELSE [kind |-> "order", order |-> s.result, error |-> NoGraphError]

(* --------------------------------------------------------------- actions *)

Init ==
  /\ tasks = EmptyMap
  /\ keys = <<>>
  /\ pc = "idle"
  /\ sortedTasks = <<>>
  /\ idx = 1
  /\ results = EmptyMap
  /\ returned = [kind |-> "none", id |-> NoError, value |-> EmptyMap]
  /\ invoked = <<>>
  /\ runs = 0
  /\ nregs = 0
  /\ clears = 0
  /\ nodes = <<>>
  /\ graph = NotBuilt
  /\ op = "none"
  /\ phase = "idle"
  /\ pos = 1
  /\ inCall = FALSE
  /\ summaries = <<>>
  /\ todo = <<>>
  /\ calls = <<>>

\* register without `if (this.tasks.has(task.id)) return;`
RegisterOverwrite(task) ==
  /\ IF task.id \in DOMAIN tasks
     THEN /\ tasks' = [tasks EXCEPT ![task.id] =
                         [task |-> task, status |-> "pending",
                          result |-> Undefined, error |-> Undefined]]
          /\ UNCHANGED keys
     ELSE /\ tasks' = (task.id :> [task |-> task, status |-> "pending",
                                   result |-> Undefined, error |-> Undefined])
                      @@ tasks
          /\ keys' = Append(keys, task.id)
  /\ nregs' = nregs + 1
  /\ UNCHANGED <<pc, sortedTasks, idx, results, returned, invoked, runs, clears>>

\* register(task)
Register(task) ==
  /\ IF task.id \in DOMAIN tasks
     THEN UNCHANGED <<tasks, keys>>
     ELSE /\ tasks' = (task.id :> [task |-> task, status |-> "pending",
                                   result |-> Undefined, error |-> Undefined])
                      @@ tasks
          /\ keys' = Append(keys, task.id)
  /\ nregs' = nregs + 1
  /\ UNCHANGED <<pc, sortedTasks, idx, results, returned, invoked, runs, clears>>

\* depsFailed that tests for the wrong status: `=== "completed"`
DepsFailedWrongStatus(ts, taskId) ==
  \E i \in 1..Len(Deps(ts, taskId)) :
     LET depId == Deps(ts, taskId)[i]
     IN depId \in DOMAIN ts /\ ts[depId].status = "completed"

\* depsFailed that looks at every task of the registry, not at deps
DepsFailedAnyTask(ts, taskId) ==
  \E depId \in DOMAIN ts : ts[depId].status = "failed"

\* depsFailed that is never true: no task is skipped
DepsFailedNever(ts, taskId) == FALSE

\* `deps.some((depId) => this.tasks.get(depId)?.status === "failed")`
DepsFailed(ts, taskId) ==
  \E i \in 1..Len(Deps(ts, taskId)) :
     LET depId == Deps(ts, taskId)[i]
     IN depId \in DOMAIN ts /\ ts[depId].status = "failed"

\* executeAll that rejects an empty registry
ExecuteAllCallThrowsOnEmpty ==
  /\ pc = "idle"
  /\ runs' = runs + 1
  /\ LET sorted == TopologicalSort(tasks, keys)
     IN IF Len(keys) = 0 \/ sorted.error # NoError
        THEN /\ returned' = [kind |-> "error", id |-> sorted.error, value |-> EmptyMap]
             /\ UNCHANGED <<pc, sortedTasks, idx, results>>
        ELSE /\ sortedTasks' = sorted.result
             /\ idx' = 1
             /\ results' = EmptyMap
             /\ pc' = "loop"
             /\ UNCHANGED returned
  /\ UNCHANGED <<tasks, keys, invoked, nregs, clears>>

\* executeAll() is called: up to the for-of loop
ExecuteAllCall ==
  /\ pc = "idle"
  /\ runs' = runs + 1
  /\ IF Len(keys) = 0
     THEN /\ returned' = [kind |-> "map", id |-> NoError, value |-> EmptyMap]
          /\ UNCHANGED <<pc, sortedTasks, idx, results>>
     ELSE LET sorted == TopologicalSort(tasks, keys)
          IN IF sorted.error # NoError
             THEN /\ returned' = [kind |-> "error", id |-> sorted.error, value |-> EmptyMap]
                  /\ UNCHANGED <<pc, sortedTasks, idx, results>>
             ELSE /\ sortedTasks' = sorted.result
                  /\ idx' = 1
                  /\ results' = EmptyMap
                  /\ pc' = "loop"
                  /\ UNCHANGED returned
  /\ UNCHANGED <<tasks, keys, invoked, nregs, clears>>

\* the loop without the await: the executor is started and the loop goes on
LoopStepNoAwait ==
  /\ pc = "loop"
  /\ idx <= Len(sortedTasks)
  /\ LET taskId == sortedTasks[idx]
     IN IF taskId \notin DOMAIN tasks
        THEN /\ idx' = idx + 1
             /\ UNCHANGED <<tasks, results, invoked, pc>>
        ELSE IF DepsFailed(tasks, taskId)
        THEN /\ tasks' = [tasks EXCEPT ![taskId].status = "failed",
                                       ![taskId].result = Some(DependenciesFailed)]
             /\ results' = (taskId :> DependenciesFailed) @@ results
             /\ idx' = idx + 1
             /\ UNCHANGED <<invoked, pc>>
        ELSE /\ tasks' = [tasks EXCEPT ![taskId].status = "running"]
             /\ invoked' = Append(invoked, <<taskId, tasks[taskId].task.executor>>)
             /\ idx' = idx + 1
             /\ UNCHANGED <<results, pc>>
  /\ UNCHANGED <<keys, sortedTasks, returned, runs, nregs, clears>>
  /\ UNCHANGED <<graphVars, orchVars>>

\* the loop without `results.set(taskId, skipResult)` for a skipped task
LoopStepSkipNotRecorded ==
  /\ pc = "loop"
  /\ idx <= Len(sortedTasks)
  /\ LET taskId == sortedTasks[idx]
     IN IF taskId \notin DOMAIN tasks
        THEN /\ idx' = idx + 1
             /\ UNCHANGED <<tasks, results, invoked, pc>>
        ELSE IF DepsFailed(tasks, taskId)
        THEN /\ tasks' = [tasks EXCEPT ![taskId].status = "failed",
                                       ![taskId].result = Some(DependenciesFailed)]
             /\ idx' = idx + 1
             /\ UNCHANGED <<results, invoked, pc>>
        ELSE /\ tasks' = [tasks EXCEPT ![taskId].status = "running"]
             /\ invoked' = Append(invoked, <<taskId, tasks[taskId].task.executor>>)
             /\ pc' = "await"
             /\ UNCHANGED <<results, idx>>
  /\ UNCHANGED <<keys, sortedTasks, returned, runs, nregs, clears>>
  /\ UNCHANGED <<graphVars, orchVars>>

\* the loop whose skip path has no `continue`: the same task is met again
LoopStepSkipStandsStill ==
  /\ pc = "loop"
  /\ idx <= Len(sortedTasks)
  /\ LET taskId == sortedTasks[idx]
     IN IF taskId \notin DOMAIN tasks
        THEN /\ idx' = idx + 1
             /\ UNCHANGED <<tasks, results, invoked, pc>>
        ELSE IF DepsFailed(tasks, taskId)
        THEN /\ tasks' = [tasks EXCEPT ![taskId].status = "failed",
                                       ![taskId].result = Some(DependenciesFailed)]
             /\ results' = (taskId :> DependenciesFailed) @@ results
             /\ UNCHANGED <<idx, invoked, pc>>
        ELSE /\ tasks' = [tasks EXCEPT ![taskId].status = "running"]
             /\ invoked' = Append(invoked, <<taskId, tasks[taskId].task.executor>>)
             /\ pc' = "await"
             /\ UNCHANGED <<results, idx>>
  /\ UNCHANGED <<keys, sortedTasks, returned, runs, nregs, clears>>
  /\ UNCHANGED <<graphVars, orchVars>>

\* the loop without `state.status = "running"` before the await
LoopStepStaysPending ==
  /\ pc = "loop"
  /\ idx <= Len(sortedTasks)
  /\ LET taskId == sortedTasks[idx]
     IN IF taskId \notin DOMAIN tasks
        THEN /\ idx' = idx + 1
             /\ UNCHANGED <<tasks, results, invoked, pc>>
        ELSE IF DepsFailed(tasks, taskId)
        THEN /\ tasks' = [tasks EXCEPT ![taskId].status = "failed",
                                       ![taskId].result = Some(DependenciesFailed)]
             /\ results' = (taskId :> DependenciesFailed) @@ results
             /\ idx' = idx + 1
             /\ UNCHANGED <<invoked, pc>>
        ELSE /\ invoked' = Append(invoked, <<taskId, tasks[taskId].task.executor>>)
             /\ pc' = "await"
             /\ UNCHANGED <<tasks, results, idx>>
  /\ UNCHANGED <<keys, sortedTasks, returned, runs, nregs, clears>>
  /\ UNCHANGED <<graphVars, orchVars>>

\* one turn of the for-of loop, up to `continue` or to the await
LoopStep ==
  /\ pc = "loop"
  /\ idx <= Len(sortedTasks)
  /\ LET taskId == sortedTasks[idx]
     IN IF taskId \notin DOMAIN tasks
        THEN /\ idx' = idx + 1
             /\ UNCHANGED <<tasks, results, invoked, pc>>
        ELSE IF DepsFailed(tasks, taskId)
        THEN /\ tasks' = [tasks EXCEPT ![taskId].status = "failed",
                                       ![taskId].result = Some(DependenciesFailed)]
             /\ results' = (taskId :> DependenciesFailed) @@ results
             /\ idx' = idx + 1
             /\ UNCHANGED <<invoked, pc>>
        ELSE /\ tasks' = [tasks EXCEPT ![taskId].status = "running"]
             /\ invoked' = Append(invoked, <<taskId, tasks[taskId].task.executor>>)
             /\ pc' = "await"
             /\ UNCHANGED <<results, idx>>
  /\ UNCHANGED <<keys, sortedTasks, returned, runs, nregs, clears>>
  /\ UNCHANGED <<graphVars, orchVars>>

\* the await without the try/catch: a rejection ends executeAll
ExecutorSettlesUncaught(outcome) ==
  /\ pc = "await"
  /\ LET taskId == sortedTasks[idx]
         result == ExecutorResult(outcome)
     IN IF outcome = "throw"
        THEN /\ returned' = [kind |-> "error", id |-> NoError, value |-> EmptyMap]
             /\ pc' = "idle"
             /\ UNCHANGED <<tasks, results, idx>>
        ELSE /\ tasks' = [tasks EXCEPT
                            ![taskId].status = IF result.ok THEN "completed" ELSE "failed",
                            ![taskId].result = Some(result)]
             /\ results' = (taskId :> result) @@ results
             /\ idx' = idx + 1
             /\ pc' = "loop"
             /\ UNCHANGED returned
  /\ UNCHANGED <<keys, sortedTasks, invoked, runs, nregs, clears>>
  /\ UNCHANGED <<graphVars, orchVars>>

\* a settle that, on a result that is not ok, reverses the tasks still to run
ExecutorSettlesReorders(outcome) ==
  /\ pc = "await"
  /\ LET taskId == sortedTasks[idx]
         result == IF outcome = "throw" THEN CaughtResult ELSE ExecutorResult(outcome)
     IN /\ tasks' = [tasks EXCEPT
                       ![taskId].status = IF result.ok THEN "completed" ELSE "failed",
                       ![taskId].result = Some(result),
                       ![taskId].error = IF outcome = "throw" THEN Some(ThrownMessage) ELSE @]
        /\ results' = (taskId :> result) @@ results
        /\ sortedTasks' = IF result.ok THEN sortedTasks
                          ELSE [i \in 1..Len(sortedTasks) |->
                                  IF i <= idx THEN sortedTasks[i]
                                  ELSE sortedTasks[Len(sortedTasks) + idx + 1 - i]]
  /\ idx' = idx + 1
  /\ pc' = "loop"
  /\ UNCHANGED <<keys, returned, invoked, runs, nregs, clears>>
  /\ UNCHANGED <<graphVars, orchVars>>

\* the awaited executor settles: the rest of the try block, or the catch block.
\* `state` is the object read before the await; after a clear() it is no longer
\* an entry of the Map, and what is written to it is not seen through the Map
ExecutorSettles(outcome) ==
  /\ pc = "await"
  /\ LET taskId == sortedTasks[idx]
         result == IF outcome = "throw" THEN CaughtResult ELSE ExecutorResult(outcome)
     IN /\ tasks' = IF taskId \in DOMAIN tasks
                    THEN [tasks EXCEPT
                            ![taskId].status = IF result.ok THEN "completed" ELSE "failed",
                            ![taskId].result = Some(result),
                            ![taskId].error = IF outcome = "throw" THEN Some(ThrownMessage)
                                              ELSE @]
                    ELSE tasks
        /\ results' = (taskId :> result) @@ results
  /\ idx' = idx + 1
  /\ pc' = "loop"
  /\ UNCHANGED <<keys, sortedTasks, returned, invoked, runs, nregs, clears>>
  /\ UNCHANGED <<graphVars, orchVars>>

\* the end of the loop that looks for tasks still pending and walks them too
ExecuteAllReturnUnlessPending ==
  /\ pc = "loop"
  /\ idx > Len(sortedTasks)
  /\ IF \E i \in 1..Len(keys) : tasks[keys[i]].status = "pending"
     THEN /\ sortedTasks' = sortedTasks \o
                            SelectSeq(keys, LAMBDA k : tasks[k].status = "pending")
          /\ UNCHANGED <<returned, pc>>
     ELSE /\ returned' = [kind |-> "map", id |-> NoError, value |-> results]
          /\ pc' = "idle"
          /\ UNCHANGED sortedTasks
  /\ UNCHANGED <<tasks, keys, idx, results, invoked, runs, nregs, clears>>
  /\ UNCHANGED <<graphVars, orchVars>>

\* the loop is over: executeAll returns results
ExecuteAllReturn ==
  /\ pc = "loop"
  /\ idx > Len(sortedTasks)
  /\ returned' = [kind |-> "map", id |-> NoError, value |-> results]
  /\ pc' = "idle"
  /\ UNCHANGED <<tasks, keys, sortedTasks, idx, results, invoked, runs, nregs, clears>>
  /\ UNCHANGED <<graphVars, orchVars>>

\* number of dependsOn entries the registry holds
RECURSIVE EdgeCount(_, _)
EdgeCount(ts, ks) ==
  IF ks = <<>> THEN 0 ELSE Len(Deps(ts, Head(ks))) + EdgeCount(ts, Tail(ks))

\* the callers register their tasks, then the run calls executeAll once
RegisterStep ==
  /\ pc = "idle"
  /\ runs = 0
  /\ nregs < MaxRegs
  /\ \E id \in TaskIds, priority \in Priorities, dependsOn \in DepLists :
        /\ EdgeCount(tasks, keys) + Len(OrElse(dependsOn, <<>>)) <= MaxEdges
        /\ Register(Task(id, IF id \in DOMAIN tasks THEN LaterCaller ELSE FirstCaller,
                         priority, dependsOn))
  /\ UNCHANGED <<graphVars, orchVars>>

ExecuteAllStep == runs = 0 /\ ExecuteAllCall /\ UNCHANGED <<graphVars, orchVars>>

SettleStep == \E outcome \in Outcomes : ExecutorSettles(outcome)

Next ==
  \/ RegisterStep
  \/ ExecuteAllStep
  \/ LoopStep
  \/ SettleStep
  \/ ExecuteAllReturn

Spec == Init /\ [][Next]_vars

(* ------------------------------------------- registry, executors return *)

\* the awaited executor returns its TaskResult. A thrown error leaves the task
\* as ok = false does (status "failed"), so the order in which the tasks are
\* walked is the same for both
SettleReturnsStep == \E outcome \in Outcomes \ {"throw"} : ExecutorSettles(outcome)

NextOrder ==
  \/ RegisterStep
  \/ ExecuteAllStep
  \/ LoopStep
  \/ SettleReturnsStep
  \/ ExecuteAllReturn

SpecOrder == Init /\ [][NextOrder]_vars

(* ------------------------------------------------------ registry, reused *)

\* clear that resets every entry to pending and keeps it
ClearResetsStatus ==
  /\ tasks' = [id \in DOMAIN tasks |->
                 [tasks[id] EXCEPT !.status = "pending", !.result = Undefined,
                                   !.error = Undefined]]
  /\ clears' = clears + 1
  /\ UNCHANGED <<keys, pc, sortedTasks, idx, results, returned, invoked, runs, nregs>>

\* clear(): `this.tasks.clear()`
Clear ==
  /\ tasks' = EmptyMap
  /\ keys' = <<>>
  /\ clears' = clears + 1
  /\ UNCHANGED <<pc, sortedTasks, idx, results, returned, invoked, runs, nregs>>

\* the dependsOn of the tasks registered on a registry that lives on: none, or
\* one task id
ReuseDepLists == {Undefined} \cup {Some(<<d>>) : d \in TaskIds}

\* a registry that lives on: tasks are registered between the executeAll
\* calls made on it
ReuseRegisterStep ==
  /\ pc = "idle"
  /\ nregs < MaxReuseRegs
  /\ \E id \in TaskIds, dependsOn \in ReuseDepLists :
        Register(Task(id, IF id \in DOMAIN tasks THEN LaterCaller ELSE FirstCaller,
                      Undefined, dependsOn))
  /\ UNCHANGED <<graphVars, orchVars>>

\* executeAll is called again on it
ReuseExecuteAllStep == runs < MaxRuns /\ ExecuteAllCall /\ UNCHANGED <<graphVars, orchVars>>

\* clear is called between two calls, or while executeAll awaits an executor
ClearStep ==
  /\ pc \in {"idle", "await"}
  /\ clears < MaxClears
  /\ Clear
  /\ UNCHANGED <<graphVars, orchVars>>

NextReuse ==
  \/ ReuseRegisterStep
  \/ ReuseExecuteAllStep
  \/ ClearStep
  \/ LoopStep
  \/ SettleStep
  \/ ExecuteAllReturn

SpecReuse == Init /\ [][NextReuse]_vars

(* ------------------------------------------- registry, late registration *)

\* the caller that registers a task after executeAll was called: a task
\* executor that is awaited, or a plugin's apply after executeAll returned
LateCaller == "late"

\* the tasks of the run are registered before executeAll is called
EarlyRegisterStep ==
  /\ pc = "idle"
  /\ runs = 0
  /\ nregs < MaxReuseRegs
  /\ \E id \in TaskIds, dependsOn \in ReuseDepLists :
        Register(Task(id, IF id \in DOMAIN tasks THEN LaterCaller ELSE FirstCaller,
                      Undefined, dependsOn))
  /\ UNCHANGED <<graphVars, orchVars>>

\* a register call made while executeAll awaits an executor, or after it
\* returned
LateRegisterStep ==
  /\ runs = 1
  /\ pc \in {"await", "idle"}
  /\ nregs < MaxReuseRegs + MaxLateRegs
  /\ \E id \in TaskIds, dependsOn \in ReuseDepLists :
        Register(Task(id, LateCaller, Undefined, dependsOn))
  /\ UNCHANGED <<graphVars, orchVars>>

NextLate ==
  \/ EarlyRegisterStep
  \/ ExecuteAllStep
  \/ LateRegisterStep
  \/ LoopStep
  \/ SettleStep
  \/ ExecuteAllReturn

SpecLate == Init /\ [][NextLate]_vars

(* ------------------------------------------------- plugin execution graph *)
\* one turn of loadPlugins' loop: `result.push(node)`
LoadPlugin(node) ==
  /\ nodes' = Append(nodes, node)
  /\ UNCHANGED graph

\* the runner's prepare(): `const graph = buildPluginGraph(nodes)`
BuildGraph ==
  /\ graph' = BuildPluginGraph(nodes)
  /\ UNCHANGED nodes

\* number of dependsOn entries the loaded plugins declare
RECURSIVE PluginEdgeCount(_)
PluginEdgeCount(ns) ==
  IF ns = <<>> THEN 0 ELSE Len(GetDependencies(Head(ns))) + PluginEdgeCount(Tail(ns))

\* the configuration's plugins are loaded one by one, then the graph is built
LoadPluginStep ==
  /\ graph = NotBuilt
  /\ Len(nodes) < MaxNodes
  /\ \E id \in PluginIds, dependsOn \in PluginDepLists :
        /\ PluginEdgeCount(nodes) + Len(OrElse(dependsOn, <<>>)) <= MaxPluginEdges
        /\ LoadPlugin(PluginExecutionNode(id, dependsOn, Methods))
  /\ UNCHANGED <<regVars, orchVars>>

BuildGraphStep == graph = NotBuilt /\ BuildGraph /\ UNCHANGED <<regVars, orchVars>>

NextGraph ==
  \/ LoadPluginStep
  \/ BuildGraphStep

SpecGraph == Init /\ [][NextGraph]_vars

(* --------------------------------------------------- system task factories *)

\* `priority: 100` of createPackageManagerUpdateTask
UpdatePriority == 100

\* `priority: 50` of createPackageInstallTask
InstallPriority == 50

\* createPackageManagerUpdateTask, called by plugin caller
CreatePackageManagerUpdateTask(caller) ==
  Task("update", caller, Some(UpdatePriority), Undefined)

\* createPackageInstallTask(packageName), called by plugin caller
CreatePackageInstallTask(taskId, caller) ==
  Task(taskId, caller, Some(InstallPriority), Some(<<"update">>))

\* the register calls the registerTasks of a plugin makes, in order
PluginTasks(id) ==
  IF id = "node"
  THEN <<CreatePackageManagerUpdateTask(id), CreatePackageInstallTask("install-curl", id)>>
  ELSE IF id = "python"
  THEN <<CreatePackageManagerUpdateTask(id), CreatePackageInstallTask("install-py", id)>>
  ELSE <<>>

(* ------------------------------------------------- lifecycle orchestrator *)

\* the nodes argument of runDetect, runApply, runValidate: the runner passes
\* the order buildPluginGraph returned
RunNodes == graph.order

\* an entry of the history of calls: a call, or how it ended ("return" or
\* "throw"; for detect, apply and validate "ok" or "notok" in place of "return")
Event(ev, method, id) == [ev |-> ev, method |-> method, id |-> id]

\* the history entries of executeAll name the registry, not a plugin
TaskRegistry == "taskRegistry"

HasMethod(node, method) == method \in node.plugin.methods

(* runDetect *)

\* runDetect(nodes, context) is called
RunDetectCall ==
  /\ op = "none"
  /\ graph.kind = "order"
  /\ op' = "runDetect"
  /\ phase' = "detect"
  /\ pos' = 1
  /\ summaries' = <<>>
  /\ UNCHANGED <<regVars, graphVars, inCall, todo, calls>>

\* the loop of runDetect that reports a plugin without detect as missing
DetectStepAbsentIsMissing ==
  /\ phase = "detect"
  /\ ~inCall
  /\ pos <= Len(RunNodes)
  /\ LET node == RunNodes[pos]
     IN IF ~HasMethod(node, "detect")
        THEN /\ summaries' = Append(summaries,
                                    [id |-> node.instance.id, status |-> "missing"])
             /\ pos' = pos + 1
             /\ UNCHANGED <<inCall, calls>>
        ELSE /\ inCall' = TRUE
             /\ calls' = Append(calls, Event("call", "detect", node.instance.id))
             /\ UNCHANGED <<summaries, pos>>
  /\ UNCHANGED <<regVars, graphVars, op, phase, todo>>

\* one turn of runDetect's loop, up to `continue` or to the await
DetectStep ==
  /\ phase = "detect"
  /\ ~inCall
  /\ pos <= Len(RunNodes)
  /\ LET node == RunNodes[pos]
     IN IF ~HasMethod(node, "detect")
        THEN /\ summaries' = Append(summaries,
                                    [id |-> node.instance.id, status |-> "unknown"])
             /\ pos' = pos + 1
             /\ UNCHANGED <<inCall, calls>>
        ELSE /\ inCall' = TRUE
             /\ calls' = Append(calls, Event("call", "detect", node.instance.id))
             /\ UNCHANGED <<summaries, pos>>
  /\ UNCHANGED <<regVars, graphVars, op, phase, todo>>

\* the awaited detect settles: the push after the await, or runDetect rejects
DetectSettles(outcome) ==
  /\ phase = "detect"
  /\ inCall
  /\ inCall' = FALSE
  /\ LET node == RunNodes[pos]
     IN IF outcome = "throw"
        THEN /\ phase' = "rejected"
             /\ calls' = Append(calls, Event("throw", "detect", node.instance.id))
             /\ UNCHANGED <<summaries, pos>>
        ELSE /\ summaries' = Append(summaries,
                                    [id |-> node.instance.id,
                                     status |-> IF outcome = "ok" THEN "present"
                                                ELSE "missing"])
             /\ pos' = pos + 1
             /\ calls' = Append(calls, Event(outcome, "detect", node.instance.id))
             /\ UNCHANGED phase
  /\ UNCHANGED <<regVars, graphVars, op, todo>>

\* the loop is over: runDetect returns result
DetectReturn ==
  /\ phase = "detect"
  /\ ~inCall
  /\ pos > Len(RunNodes)
  /\ phase' = "returned"
  /\ UNCHANGED <<regVars, graphVars, op, pos, inCall, summaries, todo, calls>>

(* runApply *)

\* runApply called though buildPluginGraph threw
RunApplyCallOnAnyGraph ==
  /\ op = "none"
  /\ graph.kind # "none"
  /\ op' = "runApply"
  /\ phase' = "register"
  /\ pos' = 1
  /\ summaries' = <<>>
  /\ UNCHANGED <<regVars, graphVars, inCall, todo, calls>>

\* runApply(nodes, context) is called
RunApplyCall ==
  /\ op = "none"
  /\ graph.kind = "order"
  /\ op' = "runApply"
  /\ phase' = "register"
  /\ pos' = 1
  /\ summaries' = <<>>
  /\ UNCHANGED <<regVars, graphVars, inCall, todo, calls>>

\* one turn of the loop of phase 1, up to its end or to the await
RegisterTasksStep ==
  /\ phase = "register"
  /\ ~inCall
  /\ pos <= Len(RunNodes)
  /\ LET node == RunNodes[pos]
     IN IF ~HasMethod(node, "registerTasks")
        THEN /\ pos' = pos + 1
             /\ UNCHANGED <<inCall, todo, calls>>
        ELSE /\ inCall' = TRUE
             /\ todo' = PluginTasks(node.instance.id)
             /\ calls' = Append(calls, Event("call", "registerTasks", node.instance.id))
             /\ UNCHANGED pos
  /\ UNCHANGED <<regVars, graphVars, op, phase, summaries>>

\* the registerTasks in progress makes its next `taskRegistry.register(task)`
PluginRegisters ==
  /\ phase = "register"
  /\ inCall
  /\ todo # <<>>
  /\ Register(Head(todo))
  /\ todo' = Tail(todo)
  /\ UNCHANGED <<graphVars, op, phase, pos, inCall, summaries, calls>>

\* the awaited registerTasks settles: it returns when it has registered its
\* tasks, or it throws, at any point, and runApply rejects
RegisterTasksSettles(outcome) ==
  /\ phase = "register"
  /\ inCall
  /\ inCall' = FALSE
  /\ LET node == RunNodes[pos]
     IN IF outcome = "throw"
        THEN /\ phase' = "rejected"
             /\ todo' = <<>>
             /\ calls' = Append(calls, Event("throw", "registerTasks", node.instance.id))
             /\ UNCHANGED pos
        ELSE /\ todo = <<>>
             /\ pos' = pos + 1
             /\ calls' = Append(calls, Event("return", "registerTasks", node.instance.id))
             /\ UNCHANGED <<phase, todo>>
  /\ UNCHANGED <<regVars, graphVars, op, summaries>>

\* phase 1 without the executeAll call when no task was registered
RegisterPhaseEndsSkipEmpty ==
  /\ phase = "register"
  /\ ~inCall
  /\ pos > Len(RunNodes)
  /\ IF Len(keys) = 0
     THEN /\ phase' = "apply"
          /\ pos' = 1
          /\ UNCHANGED <<regVars, calls>>
     ELSE /\ ExecuteAllCall
          /\ phase' = "execute"
          /\ calls' = Append(calls, Event("call", "executeAll", TaskRegistry))
          /\ UNCHANGED pos
  /\ UNCHANGED <<graphVars, op, inCall, summaries, todo>>

\* the loop of phase 1 is over: `context.taskRegistry.executeAll()` is called
RegisterPhaseEnds ==
  /\ phase = "register"
  /\ ~inCall
  /\ pos > Len(RunNodes)
  /\ ExecuteAllCall
  /\ phase' = "execute"
  /\ calls' = Append(calls, Event("call", "executeAll", TaskRegistry))
  /\ UNCHANGED <<graphVars, op, pos, inCall, summaries, todo>>

\* the await of executeAll that lets failed tasks end runApply
ExecuteAllSettlesAbortOnFailed ==
  /\ phase = "execute"
  /\ pc = "idle"
  /\ IF returned.kind = "map" /\ \A id \in DOMAIN returned.value : returned.value[id].ok
     THEN /\ phase' = "apply"
          /\ pos' = 1
          /\ calls' = Append(calls, Event("return", "executeAll", TaskRegistry))
     ELSE /\ phase' = "rejected"
          /\ calls' = Append(calls, Event("throw", "executeAll", TaskRegistry))
          /\ UNCHANGED pos
  /\ UNCHANGED <<regVars, graphVars, op, inCall, summaries, todo>>

\* the awaited executeAll settles: phase 3 begins whatever tasks failed, or
\* runApply rejects with the Error executeAll threw
ExecuteAllSettles ==
  /\ phase = "execute"
  /\ pc = "idle"
  /\ IF returned.kind = "map"
     THEN /\ phase' = "apply"
          /\ pos' = 1
          /\ calls' = Append(calls, Event("return", "executeAll", TaskRegistry))
     ELSE /\ phase' = "rejected"
          /\ calls' = Append(calls, Event("throw", "executeAll", TaskRegistry))
          /\ UNCHANGED pos
  /\ UNCHANGED <<regVars, graphVars, op, inCall, summaries, todo>>

\* the loop of phase 3 without the await: apply is started and the loop goes on
ApplyStepNoAwait ==
  /\ phase = "apply"
  /\ ~inCall
  /\ pos <= Len(RunNodes)
  /\ LET node == RunNodes[pos]
     IN IF ~HasMethod(node, "apply")
        THEN /\ summaries' = Append(summaries,
                                    [id |-> node.instance.id, ok |-> TRUE,
                                     didChange |-> FALSE])
             /\ UNCHANGED calls
        ELSE /\ calls' = Append(calls, Event("call", "apply", node.instance.id))
             /\ UNCHANGED summaries
  /\ pos' = pos + 1
  /\ UNCHANGED <<regVars, graphVars, op, phase, inCall, todo>>

\* one turn of the loop of phase 3, up to `continue` or to the await
ApplyStep ==
  /\ phase = "apply"
  /\ ~inCall
  /\ pos <= Len(RunNodes)
  /\ LET node == RunNodes[pos]
     IN IF ~HasMethod(node, "apply")
        THEN /\ summaries' = Append(summaries,
                                    [id |-> node.instance.id, ok |-> TRUE,
                                     didChange |-> FALSE])
             /\ pos' = pos + 1
             /\ UNCHANGED <<inCall, calls>>
        ELSE /\ inCall' = TRUE
             /\ calls' = Append(calls, Event("call", "apply", node.instance.id))
             /\ UNCHANGED <<summaries, pos>>
  /\ UNCHANGED <<regVars, graphVars, op, phase, todo>>

\* the await of apply that ends the loop at a result that is not ok
ApplySettlesStopOnNotOk(outcome) ==
  /\ phase = "apply"
  /\ inCall
  /\ inCall' = FALSE
  /\ LET node == RunNodes[pos]
     IN IF outcome = "throw"
        THEN /\ phase' = "rejected"
             /\ calls' = Append(calls, Event("throw", "apply", node.instance.id))
             /\ UNCHANGED <<summaries, pos>>
        ELSE /\ summaries' = Append(summaries,
                                    [id |-> node.instance.id, ok |-> outcome = "ok",
                                     didChange |-> outcome = "ok"])
             /\ pos' = IF outcome = "ok" THEN pos + 1 ELSE Len(RunNodes) + 1
             /\ calls' = Append(calls, Event(outcome, "apply", node.instance.id))
             /\ UNCHANGED phase
  /\ UNCHANGED <<regVars, graphVars, op, todo>>

\* the awaited apply settles: the push after the await, or runApply rejects;
\* an apply that is ok reports a change, one that is not ok reports none
ApplySettles(outcome) ==
  /\ phase = "apply"
  /\ inCall
  /\ inCall' = FALSE
  /\ LET node == RunNodes[pos]
     IN IF outcome = "throw"
        THEN /\ phase' = "rejected"
             /\ calls' = Append(calls, Event("throw", "apply", node.instance.id))
             /\ UNCHANGED <<summaries, pos>>
        ELSE /\ summaries' = Append(summaries,
                                    [id |-> node.instance.id, ok |-> outcome = "ok",
                                     didChange |-> outcome = "ok"])
             /\ pos' = pos + 1
             /\ calls' = Append(calls, Event(outcome, "apply", node.instance.id))
             /\ UNCHANGED phase
  /\ UNCHANGED <<regVars, graphVars, op, todo>>

\* the loop of phase 3 is over: runApply returns result
ApplyReturn ==
  /\ phase = "apply"
  /\ ~inCall
  /\ pos > Len(RunNodes)
  /\ phase' = "returned"
  /\ UNCHANGED <<regVars, graphVars, op, pos, inCall, summaries, todo, calls>>

(* runValidate *)

\* runValidate(nodes, context) is called
RunValidateCall ==
  /\ op = "none"
  /\ graph.kind = "order"
  /\ op' = "runValidate"
  /\ phase' = "validate"
  /\ pos' = 1
  /\ summaries' = <<>>
  /\ UNCHANGED <<regVars, graphVars, inCall, todo, calls>>

\* one turn of runValidate's loop, up to `continue` or to the await
ValidateStep ==
  /\ phase = "validate"
  /\ ~inCall
  /\ pos <= Len(RunNodes)
  /\ LET node == RunNodes[pos]
     IN IF ~HasMethod(node, "validate")
        THEN /\ summaries' = Append(summaries, [id |-> node.instance.id, ok |-> TRUE])
             /\ pos' = pos + 1
             /\ UNCHANGED <<inCall, calls>>
        ELSE /\ inCall' = TRUE
             /\ calls' = Append(calls, Event("call", "validate", node.instance.id))
             /\ UNCHANGED <<summaries, pos>>
  /\ UNCHANGED <<regVars, graphVars, op, phase, todo>>

\* the awaited validate settles: the push after the await, or runValidate
\* rejects
ValidateSettles(outcome) ==
  /\ phase = "validate"
  /\ inCall
  /\ inCall' = FALSE
  /\ LET node == RunNodes[pos]
     IN IF outcome = "throw"
        THEN /\ phase' = "rejected"
             /\ calls' = Append(calls, Event("throw", "validate", node.instance.id))
             /\ UNCHANGED <<summaries, pos>>
        ELSE /\ summaries' = Append(summaries,
                                    [id |-> node.instance.id, ok |-> outcome = "ok"])
             /\ pos' = pos + 1
             /\ calls' = Append(calls, Event(outcome, "validate", node.instance.id))
             /\ UNCHANGED phase
  /\ UNCHANGED <<regVars, graphVars, op, todo>>

\* the loop is over: runValidate returns result
ValidateReturn ==
  /\ phase = "validate"
  /\ ~inCall
  /\ pos > Len(RunNodes)
  /\ phase' = "returned"
  /\ UNCHANGED <<regVars, graphVars, op, pos, inCall, summaries, todo, calls>>

(* one run of the orchestrator *)

\* a configuration of up to MaxPlugins plugins with ids of their own and no
\* dependsOn is loaded
LoadForRunStep ==
  /\ graph = NotBuilt
  /\ Len(nodes) < MaxPlugins
  /\ \E id \in PluginIds, methods \in MethodSets :
        /\ \A i \in 1..Len(nodes) : nodes[i].instance.id # id
        /\ LoadPlugin(PluginExecutionNode(id, Undefined, methods))
  /\ UNCHANGED <<regVars, orchVars>>

DetectSettlesStep == \E outcome \in Outcomes : DetectSettles(outcome)

RegisterTasksSettlesStep == \E outcome \in RegisterOutcomes : RegisterTasksSettles(outcome)

ApplySettlesStep == \E outcome \in Outcomes : ApplySettles(outcome)

ValidateSettlesStep == \E outcome \in Outcomes : ValidateSettles(outcome)

NextRun ==
  \/ LoadForRunStep
  \/ BuildGraphStep
  \/ RunDetectCall
  \/ DetectStep
  \/ DetectSettlesStep
  \/ DetectReturn
  \/ RunApplyCall
  \/ RegisterTasksStep
  \/ PluginRegisters
  \/ RegisterTasksSettlesStep
  \/ RegisterPhaseEnds
  \/ LoopStep
  \/ SettleStep
  \/ ExecuteAllReturn
  \/ ExecuteAllSettles
  \/ ApplyStep
  \/ ApplySettlesStep
  \/ ApplyReturn
  \/ RunValidateCall
  \/ ValidateStep
  \/ ValidateSettlesStep
  \/ ValidateReturn

SpecRun == Init /\ [][NextRun]_vars

(* ----------------------------------- one run over plugins with dependsOn *)

\* the dependsOn of the plugins of such a run: none, or one plugin id
RunDepLists == {Undefined} \cup {Some(<<d>>) : d \in PluginIds}

\* a configuration of up to MaxPlugins plugins with ids of their own, all four
\* lifecycle methods and a dependsOn is loaded
LoadWithDepsStep ==
  /\ graph = NotBuilt
  /\ Len(nodes) < MaxPlugins
  /\ \E id \in PluginIds, dependsOn \in RunDepLists :
        /\ \A i \in 1..Len(nodes) : nodes[i].instance.id # id
        /\ LoadPlugin(PluginExecutionNode(id, dependsOn, Methods))
  /\ UNCHANGED <<regVars, orchVars>>

NextDeps ==
  \/ LoadWithDepsStep
  \/ BuildGraphStep
  \/ RunDetectCall
  \/ DetectStep
  \/ DetectSettlesStep
  \/ DetectReturn
  \/ RunApplyCall
  \/ RegisterTasksStep
  \/ PluginRegisters
  \/ RegisterTasksSettlesStep
  \/ RegisterPhaseEnds
  \/ LoopStep
  \/ SettleStep
  \/ ExecuteAllReturn
  \/ ExecuteAllSettles
  \/ ApplyStep
  \/ ApplySettlesStep
  \/ ApplyReturn
  \/ RunValidateCall
  \/ ValidateStep
  \/ ValidateSettlesStep
  \/ ValidateReturn

SpecDeps == Init /\ [][NextDeps]_vars

(* ------------------------------------------------- runs that terminate *)

\* the registry is driven directly: tasks are registered, then executeAll is
\* called once
DirectRegisterStep == nodes = <<>> /\ graph = NotBuilt /\ EarlyRegisterStep

DirectExecuteAllStep == nodes = <<>> /\ graph = NotBuilt /\ ExecuteAllStep

\* or it is driven by runApply on the plugins of a configuration
ConfigLoadStep == nregs = 0 /\ runs = 0 /\ LoadWithDepsStep

ConfigBuildGraphStep == nregs = 0 /\ runs = 0 /\ Len(nodes) > 0 /\ BuildGraphStep

NextLive ==
  \/ DirectRegisterStep
  \/ DirectExecuteAllStep
  \/ ConfigLoadStep
  \/ ConfigBuildGraphStep
  \/ RunApplyCall
  \/ RegisterTasksStep
  \/ PluginRegisters
  \/ RegisterTasksSettlesStep
  \/ RegisterPhaseEnds
  \/ LoopStep
  \/ SettleStep
  \/ ExecuteAllReturn
  \/ ExecuteAllSettles
  \/ ApplyStep
  \/ ApplySettlesStep
  \/ ApplyReturn

\* a step of a call in progress: a continuation that is ready, or the
\* settling of an awaited executor or lifecycle method
Continue ==
  \/ LoopStep
  \/ SettleStep
  \/ ExecuteAllReturn
  \/ RegisterTasksStep
  \/ PluginRegisters
  \/ RegisterTasksSettlesStep
  \/ RegisterPhaseEnds
  \/ ExecuteAllSettles
  \/ ApplyStep
  \/ ApplySettlesStep
  \/ ApplyReturn

\* the event loop runs a continuation that is ready, and every awaited
\* executor and lifecycle method settles: a call in progress is not left
\* standing. Registrations, loading and the calls of executeAll and runApply
\* are left to the caller
SpecLive == Init /\ [][NextLive]_vars /\ WF_vars(Continue)

(* -------------------------------------------------------- the apply command *)

\* the fields of the context the CLI runner builds for the core:
\* `{ cwd: context.cwd, env: process.env }`
RunnerContext == {"cwd", "env"}

\* the error a property read of undefined raises
TypeError == "TypeError"

\* the runner's runApply after prepare(): the core's runApply is called with
\* the runner's context and reaches `context.logger.debug(...)`, its first
\* statement after `const result = []`
CliRunApply ==
  /\ op = "none"
  /\ graph.kind = "order"
  /\ op' = "runApply"
  /\ summaries' = <<>>
  /\ IF "logger" \in RunnerContext
     THEN /\ phase' = "register"
          /\ pos' = 1
          /\ UNCHANGED calls
     ELSE /\ phase' = "rejected"
          /\ calls' = Append(calls, Event("throw", "runApply", TypeError))
          /\ UNCHANGED pos
  /\ UNCHANGED <<regVars, graphVars, inCall, todo>>

NextCli ==
  \/ LoadForRunStep
  \/ BuildGraphStep
  \/ CliRunApply

SpecCli == Init /\ [][NextCli]_vars

(* ------------------------------------------------ vocabulary of the claims *)

Registered == DOMAIN tasks

\* the registered ids that task id names in dependsOn
DepSet(id) == {Deps(tasks, id)[i] : i \in 1..Len(Deps(tasks, id))} \cap Registered

RECURSIVE DepClosure(_, _)
DepClosure(S, n) ==
  LET T == S \cup UNION {DepSet(x) : x \in S}
  IN IF n = 0 \/ T = S THEN S ELSE DepClosure(T, n - 1)

\* the registered ids task id depends on, directly or transitively
TransDeps(id) == DepClosure(DepSet(id), Cardinality(TaskIds))

HasCycle == \E id \in Registered : id \in TransDeps(id)

\* number of times the executor of task id was invoked
Invocations(id) == Cardinality({i \in 1..Len(invoked) : invoked[i][1] = id})

Terminal(id) == tasks[id].status \in {"completed", "failed"}

\* executeAll has begun to process the task: it is started or skipped
Processed(id) == tasks[id].status # "pending"

\* the one executeAll call of the run has returned its map
ReturnedMap == runs = 1 /\ pc = "idle" /\ returned.kind = "map"

\* the one executeAll call of the run has thrown
Threw == runs = 1 /\ pc = "idle" /\ returned.kind = "error"

(* ------------------------------------------------------------------- C1 *)

\* C1: within one executeAll call the executor of a task id is invoked at most
\* once, and it is the executor of the first registration; when the call has
\* returned, a task none of whose dependencies failed was invoked exactly once,
\* however many register calls named its id.
C1_ExecutorInvokedOnce ==
  /\ \A id \in TaskIds : Invocations(id) <= 1
  /\ \A i \in 1..Len(invoked) :
        /\ invoked[i][1] \in Registered
        /\ invoked[i][2] = tasks[invoked[i][1]].task.executor
  /\ ReturnedMap =>
        \A id \in Registered :
           (\A d \in DepSet(id) : tasks[d].status # "failed") => Invocations(id) = 1

\* one id was registered three times and executeAll ran its executor once
C1_Witness ==
  /\ ReturnedMap
  /\ Len(keys) = 1
  /\ nregs = 3
  /\ Len(invoked) = 1

(* ------------------------------------------------------------------- C2 *)

\* C2: a register call never changes or removes an entry the registry already
\* holds (task, status, result and error stay those of the first registration)
\* and never reorders the keys; it adds at most one entry, and only under an
\* id that was not present; so the registry holds one entry per distinct id,
\* exactly one after N registrations of the same id.
C2_RegisterIdempotent ==
  /\ [](/\ NoRepeat(keys)
        /\ {keys[i] : i \in 1..Len(keys)} = DOMAIN tasks
        /\ Len(keys) <= nregs
        /\ \A id \in DOMAIN tasks : tasks[id].task.id = id)
  /\ [][nregs' = nregs + 1 =>
          /\ \A id \in DOMAIN tasks : id \in DOMAIN tasks' /\ tasks'[id] = tasks[id]
          /\ Len(keys') <= Len(keys) + 1
          /\ SubSeq(keys', 1, Len(keys)) = keys
          /\ Len(keys') = Len(keys) + 1 => keys'[Len(keys')] \notin DOMAIN tasks
          /\ returned' = returned]_vars

\* three registrations of one id: one entry, that of the first registration
C2_Witness ==
  /\ runs = 0
  /\ nregs = 3
  /\ Len(keys) = 1
  /\ tasks[keys[1]].task.description = FirstCaller
  /\ tasks[keys[1]].task.executor = FirstCaller
  /\ tasks[keys[1]].status = "pending"

(* ------------------------------------------------------------------- C3 *)

\* position of a task in the order executeAll walks
Pos(id) == CHOOSE i \in 1..Len(sortedTasks) : sortedTasks[i] = id

\* executeAll has computed its order
Sorted == runs = 1 /\ returned.kind # "error" /\ keys # <<>>

\* C3: when executeAll starts or skips task B, every registered id A of
\* B.dependsOn is completed or failed, whatever the two priorities; the order
\* executeAll walks lists every registered task after its registered
\* dependencies.
C3_DependenciesFirst ==
  /\ \A b \in Registered : Processed(b) => \A a \in DepSet(b) : Terminal(a)
  /\ Sorted =>
        \A b \in Registered : \A a \in DepSet(b) :
           /\ \E i \in 1..Len(sortedTasks) : sortedTasks[i] = a
           /\ \E j \in 1..Len(sortedTasks) : sortedTasks[j] = b
           /\ Pos(a) < Pos(b)

\* B depends on A, A has the lower priority, and B runs after A has ended
C3_Witness ==
  \E a, b \in Registered :
     /\ a \in DepSet(b)
     /\ PriorityOf(tasks, a) < PriorityOf(tasks, b)
     /\ tasks[b].status = "running"
     /\ Terminal(a)

(* ------------------------------------------------------------------- C4 *)

Prio(id) == PriorityOf(tasks, id)

\* neither task depends on the other, directly or transitively
Unconstrained(x, y) == x # y /\ x \notin TransDeps(y) /\ y \notin TransDeps(x)

\* C4 as claimed: of two registered tasks with no ordering constraint between
\* them, the one with the higher priority is processed first.
C4_AsClaimed ==
  \A x, y \in Registered :
     (Prio(x) > Prio(y) /\ Processed(y) /\ Unconstrained(x, y)) => Processed(x)

\* Y is no direct or transitive dependency of a registered task whose priority
\* is at least that of X
NotPulledAhead(x, y) == \A w \in Registered : Prio(w) >= Prio(x) => y \notin TransDeps(w)

\* C4, amended: of two registered tasks X and Y with no ordering constraint
\* between them and priority(X) > priority(Y), X is processed first provided Y
\* is not a direct or transitive dependency of any registered task whose
\* priority is at least priority(X).
C4_PriorityAmongUnconstrained ==
  \A x, y \in Registered :
     (Prio(x) > Prio(y) /\ Processed(y) /\ Unconstrained(x, y) /\ NotPulledAhead(x, y))
     => Processed(x)

\* Y was registered before X, X has the higher priority and a dependency of its
\* own, and X is completed when Y runs
C4_Witness ==
  \E x, y \in Registered :
     /\ Unconstrained(x, y)
     /\ Prio(x) > Prio(y)
     /\ NotPulledAhead(x, y)
     /\ keys[1] = y
     /\ DepSet(x) # {}
     /\ tasks[x].status = "completed"
     /\ tasks[y].status = "running"

(* ------------------------------------------------------------------- C5 *)

NoDependencies == \A id \in Registered : Deps(tasks, id) = <<>>

\* C5: when no registered task declares a dependency, executeAll walks all the
\* registered tasks in non-increasing priority order (no priority counts as
\* 0), whatever the registration order, and invokes the executors in that
\* order.
C5_PriorityOrder ==
  (Sorted /\ NoDependencies) =>
     /\ Len(sortedTasks) = Len(keys)
     /\ {sortedTasks[i] : i \in 1..Len(sortedTasks)} = Registered
     /\ \A i, j \in 1..Len(sortedTasks) :
           i < j => Prio(sortedTasks[i]) >= Prio(sortedTasks[j])
     /\ \A x, y \in Registered : (Prio(x) > Prio(y) /\ Processed(y)) => Processed(x)
     /\ \A i \in 1..Len(invoked) : invoked[i][1] = sortedTasks[i]

\* three tasks without dependencies, the first registered without a priority,
\* have run: the two with priority 1 first
C5_Witness ==
  /\ ReturnedMap
  /\ NoDependencies
  /\ Len(keys) = 3
  /\ tasks[keys[1]].task.priority = Undefined
  /\ tasks[keys[2]].task.priority = Some(1)
  /\ tasks[keys[3]].task.priority = Some(1)
  /\ invoked = <<<<keys[2], FirstCaller>>, <<keys[3], FirstCaller>>, <<keys[1], FirstCaller>>>>

(* ------------------------------------------------------------------- C6 *)

\* C6: when dependsOn has a cycle among the registered tasks (a task that
\* depends on itself included), the executeAll call throws an error that
\* names an id on a cycle, no executor is invoked, not even of a task off
\* the cycle, and every task stays pending without a result.
C6_CycleAborts ==
  (HasCycle /\ runs = 1) =>
     /\ pc = "idle"
     /\ returned.kind = "error"
     /\ returned.id \in Registered
     /\ returned.id \in TransDeps(returned.id)
     /\ invoked = <<>>
     /\ \A id \in Registered :
           tasks[id].status = "pending" /\ tasks[id].result = Undefined

\* two tasks depend on each other, a third task is off the cycle, and
\* executeAll has thrown
C6_Witness ==
  /\ Threw
  /\ \E a, b, c \in Registered :
        /\ a # b
        /\ a \in DepSet(b)
        /\ b \in DepSet(a)
        /\ c \notin TransDeps(c)
        /\ tasks[c].status = "pending"

(* ------------------------------------------------------------------- C7 *)

\* C7: while task A is failed, a task B that depends on A directly or
\* transitively is never running or completed and its executor has not been
\* invoked; when executeAll has returned, B is failed with the
\* "Dependencies failed" result, in the registry and in the returned map.
C7_FailurePropagates ==
  \A a, b \in Registered :
     (tasks[a].status = "failed" /\ a \in TransDeps(b)) =>
        /\ tasks[b].status \in {"pending", "failed"}
        /\ Invocations(b) = 0
        /\ tasks[b].status = "failed" => tasks[b].result = Some(DependenciesFailed)
        /\ ReturnedMap =>
              /\ tasks[b].status = "failed"
              /\ b \in DOMAIN returned.value
              /\ returned.value[b] = DependenciesFailed

\* a chain C -> B -> A: A's executor threw, B was skipped, and so was C
C7_Witness ==
  /\ ReturnedMap
  /\ \E a, b, c \in Registered :
        /\ DepSet(c) = {b}
        /\ DepSet(b) = {a}
        /\ DepSet(a) = {}
        /\ tasks[a].error = Some(ThrownMessage)
        /\ tasks[b].result = Some(DependenciesFailed)
        /\ tasks[c].result = Some(DependenciesFailed)
        /\ Len(invoked) = 1

(* ------------------------------------------------------------------- C8 *)

NoFailedDependency(c) == \A d \in TransDeps(c) : tasks[d].status # "failed"

\* C8: a task is skipped only for a failed dependency of its own; when
\* executeAll has returned, every task none of whose direct or transitive
\* dependencies failed had its executor invoked, and is completed if the
\* executor returned ok.
C8_FailureIsolated ==
  /\ \A c \in Registered :
        (Processed(c) /\ Invocations(c) = 0) =>
           \E d \in DepSet(c) : tasks[d].status = "failed"
  /\ ReturnedMap =>
        \A c \in Registered :
           NoFailedDependency(c) =>
              /\ Invocations(c) = 1
              /\ c \in DOMAIN returned.value
              /\ returned.value[c].ok => tasks[c].status = "completed"

\* A failed, B was skipped for it, and C, processed after both and depending
\* on neither, ran and completed
C8_Witness ==
  /\ ReturnedMap
  /\ \E a, b, c \in Registered :
        /\ a \in DepSet(b)
        /\ TransDeps(c) = {}
        /\ tasks[a].status = "failed"
        /\ tasks[b].result = Some(DependenciesFailed)
        /\ Pos(a) < Pos(c)
        /\ Pos(b) < Pos(c)
        /\ tasks[c].status = "completed"

(* ------------------------------------------------------------------- C9 *)

ExecutorThrew(id) == tasks[id].error # Undefined

\* C9: a task whose executor threw is failed with the result ok = false that
\* carries the error's message; the executeAll call does not end on a throw
\* of an executor: when the call on an acyclic registry has ended, it has
\* returned its map, with an entry for every task, and every task has been
\* processed.
C9_ThrowIsRecorded ==
  /\ \A id \in Registered :
        ExecutorThrew(id) =>
           /\ tasks[id].status = "failed"
           /\ tasks[id].result = Some([ok |-> FALSE, error |-> tasks[id].error[1]])
  /\ (runs = 1 /\ pc = "idle" /\ ~HasCycle) =>
        /\ returned.kind = "map"
        /\ DOMAIN returned.value = Registered
        /\ \A id \in Registered : Terminal(id)

\* the first task's executor threw, and the two tasks after it ran and
\* completed
C9_Witness ==
  /\ ReturnedMap
  /\ Len(sortedTasks) = 3
  /\ ExecutorThrew(sortedTasks[1])
  /\ returned.value[sortedTasks[1]] = CaughtResult
  /\ tasks[sortedTasks[2]].status = "completed"
  /\ tasks[sortedTasks[3]].status = "completed"

(* ------------------------------------------------------------------ C10 *)

MissingDependency(b) ==
  \E i \in 1..Len(Deps(tasks, b)) : Deps(tasks, b)[i] \notin Registered

\* C10: when executeAll has returned, a task that depends on an id no task
\* registered is failed with the "Dependencies failed" result and its executor
\* was not invoked.
C10_MissingDependencyFails ==
  ReturnedMap =>
     \A b \in Registered :
        MissingDependency(b) =>
           /\ tasks[b].status = "failed"
           /\ tasks[b].result = Some(DependenciesFailed)
           /\ Invocations(b) = 0

(* ------------------------------------------------------------------ C11 *)

\* C11: a dependsOn id that no task registered never aborts the run:
\* executeAll throws only when registered tasks form a cycle; the order it
\* walks lists every registered task exactly once; and when it has returned,
\* every registered task has ended, with its executor invoked exactly when
\* none of its registered dependencies failed.
C11_MissingDependencyTolerated ==
  /\ Threw => HasCycle
  /\ Sorted =>
        /\ Len(sortedTasks) = Len(keys)
        /\ {sortedTasks[i] : i \in 1..Len(sortedTasks)} = Registered
  /\ ReturnedMap =>
        \A id \in Registered :
           /\ Terminal(id)
           /\ Invocations(id) = 1 <=> NoFailedDependency(id)

\* B names an id nobody registered; executeAll returned, and A, registered
\* beside B, completed
C11_Witness ==
  /\ ReturnedMap
  /\ Len(sortedTasks) = 2
  /\ \E a, b \in Registered :
        /\ a # b
        /\ MissingDependency(b)
        /\ ~MissingDependency(a)
        /\ tasks[a].status = "completed"
        /\ Terminal(b)

(* ------------------------------------------------------------------ C12 *)

\* C12: the map executeAll returns has one entry for every task registered
\* when it was called and no other entry, the entry of a task being the
\* result the registry recorded for it; a task skipped because a dependency
\* failed has its "Dependencies failed" entry. While the loop runs, the map
\* holds the entries of the tasks walked so far.
C12_OneEntryPerRegisteredTask ==
  /\ ReturnedMap =>
        /\ DOMAIN returned.value = Registered
        /\ \A id \in Registered : Some(returned.value[id]) = tasks[id].result
  /\ pc = "loop" =>
        DOMAIN results = {sortedTasks[i] : i \in 1..(idx - 1)}

\* three tasks were registered, one failed, one was skipped for it, and the
\* returned map has the three entries
C12_Witness ==
  /\ ReturnedMap
  /\ Cardinality(DOMAIN returned.value) = 3
  /\ \E a, b \in Registered :
        /\ a \in DepSet(b)
        /\ returned.value[a] = ExecutorResult("notok")
        /\ Invocations(b) = 0
        /\ returned.value[b] = DependenciesFailed

(* ------------------------------------ vocabulary of the orchestrator claims *)

\* the positions of the history that hold event ev of method
Calls(ev, method) ==
  {i \in 1..Len(calls) : calls[i].ev = ev /\ calls[i].method = method}

\* the last entry of the history is a throw
LastIsThrow == calls # <<>> /\ calls[Len(calls)].ev = "throw"

\* the orchestrator function has returned its summaries
Returned(fn) == op = fn /\ phase = "returned"

\* the phases of runApply, in the order of the source
Rank(method) ==
  IF method = "registerTasks" THEN 1 ELSE IF method = "executeAll" THEN 2 ELSE 3

(* ------------------------------------------------------------------ C13 *)

\* C13: within one runApply every registerTasks call has returned before
\* executeAll is called, and every plugin that defines registerTasks had its
\* call; executeAll is called at most once, and exactly once by the time
\* phase 3 begins and when runApply returns, also with an empty registry; it
\* has returned before the first apply is invoked; and the calls never go
\* back to an earlier phase.
C13_PhasesInOrder ==
  op = "runApply" =>
     /\ Cardinality(Calls("call", "executeAll")) = runs
     /\ runs <= 1
     /\ phase \in {"apply", "returned"} => runs = 1
     /\ \A i \in Calls("call", "executeAll") :
           /\ \A j \in Calls("call", "registerTasks") :
                 /\ j < i
                 /\ calls[j + 1] = Event("return", "registerTasks", calls[j].id)
           /\ \A n \in 1..Len(RunNodes) :
                 HasMethod(RunNodes[n], "registerTasks") =>
                    \E j \in Calls("call", "registerTasks") :
                       calls[j].id = RunNodes[n].instance.id
     /\ \A i \in Calls("call", "apply") :
           \E k \in 1..(i - 1) : calls[k] = Event("return", "executeAll", TaskRegistry)
     /\ \A i, j \in 1..Len(calls) :
           i < j => Rank(calls[i].method) <= Rank(calls[j].method)

\* runApply returned for two plugins, one without registerTasks and one
\* whose registerTasks registered nothing: executeAll was called once, on the
\* empty registry, between the registerTasks call and the two apply calls
C13_Witness ==
  /\ Returned("runApply")
  /\ keys = <<>>
  /\ Cardinality(Calls("return", "registerTasks")) = 1
  /\ Cardinality(Calls("call", "executeAll")) = 1
  /\ Cardinality(Calls("call", "apply")) = 2

(* ------------------------------------------------------------------ C14 *)

\* runApply on the plugins "node" and "python", both with registerTasks
Scenario ==
  /\ op = "runApply"
  /\ Len(RunNodes) = 2
  /\ RunNodes[1].instance.id = "node"
  /\ RunNodes[2].instance.id = "python"
  /\ HasMethod(RunNodes[1], "registerTasks")
  /\ HasMethod(RunNodes[2], "registerTasks")

Installs == {"install-curl", "install-py"}

\* C14: when "node" has registered update and install-curl and "python"
\* update again and install-py, the registry holds 3 tasks after 4 register
\* calls; executeAll is called once, invokes update's executor at most once
\* and an install's only after update's; when it has returned, its map has
\* the 3 entries, update was invoked once, both installs were invoked if
\* update completed, and an install whose executor returned ok is completed.
C14_EndToEnd ==
  (Scenario /\ Cardinality(Calls("return", "registerTasks")) = 2) =>
     /\ nregs = 4
     /\ keys = <<"update", "install-curl", "install-py">>
     /\ tasks["update"].task.executor = "node"
     /\ runs <= 1
     /\ Invocations("update") <= 1
     /\ \A i \in 1..Len(invoked) :
           invoked[i][1] \in Installs =>
              \E j \in 1..(i - 1) : invoked[j][1] = "update"
     /\ Calls("return", "executeAll") # {} =>
           /\ DOMAIN returned.value = SystemTaskIds
           /\ Invocations("update") = 1
           /\ \A t \in Installs :
                 /\ tasks["update"].status = "completed" => Invocations(t) = 1
                 /\ (Invocations(t) = 1 /\ returned.value[t].ok) =>
                       tasks[t].status = "completed"

\* the three executors were invoked once each, update's first, and the three
\* tasks completed
C14_Witness ==
  /\ Scenario
  /\ Returned("runApply")
  /\ Len(invoked) = 3
  /\ invoked[1] = <<"update", "node">>
  /\ \A t \in SystemTaskIds : tasks[t].status = "completed" /\ returned.value[t].ok

(* ------------------------------------------------------------------ C15 *)

\* C15: a throw of detect, registerTasks, apply or validate does not end the
\* orchestrator function that awaits it: the function is not left by the
\* throw of a lifecycle method.
C15_ThrowDoesNotStop ==
  \A i \in 1..Len(calls) :
     (calls[i].ev = "throw" /\ calls[i].method \in Methods) => phase # "rejected"

(* ------------------------------------------------------------------ C16 *)

\* the summary of a detect, apply or validate that returned not-ok
FailedSummary(fn, id) ==
  IF fn = "runDetect" THEN [id |-> id, status |-> "missing"]
  ELSE IF fn = "runApply" THEN [id |-> id, ok |-> FALSE, didChange |-> FALSE]
  ELSE [id |-> id, ok |-> FALSE]

MethodOf(fn) ==
  IF fn = "runDetect" THEN "detect" ELSE IF fn = "runApply" THEN "apply" ELSE "validate"

FailedTasks == {id \in DOMAIN returned.value : ~returned.value[id].ok}

\* C17: failed tasks do not end runApply: the await of executeAll throws only
\* the Error executeAll itself threw, and runApply rejects only on a throw;
\* when executeAll has returned its map, whatever tasks failed, phase 3 is
\* entered, and when runApply returns, apply was invoked on every plugin that
\* has one and there is a summary for every plugin.
C17_FailedTasksDoNotStopApply ==
  op = "runApply" =>
     /\ \A i \in Calls("throw", "executeAll") : returned.kind = "error"
     /\ phase = "rejected" => LastIsThrow
     /\ (phase = "execute" \/ Calls("call", "executeAll") = {}) =>
           Calls("call", "apply") = {}
     /\ (runs = 1 /\ pc = "idle" /\ returned.kind = "map" /\ phase # "execute") =>
           /\ Calls("return", "executeAll") # {}
           /\ phase \in {"apply", "returned", "rejected"}
     /\ phase = "returned" =>
           /\ Len(summaries) = Len(RunNodes)
           /\ \A n \in 1..Len(RunNodes) :
                 /\ summaries[n].id = RunNodes[n].instance.id
                 /\ HasMethod(RunNodes[n], "apply") =>
                       \E k \in Calls("call", "apply") :
                          calls[k].id = RunNodes[n].instance.id

\* update failed and both installs were skipped for it; runApply went on to
\* invoke apply on its two plugins and returned their summaries
C17_Witness ==
  /\ Returned("runApply")
  /\ FailedTasks = SystemTaskIds
  /\ Len(RunNodes) = 2
  /\ Cardinality(Calls("call", "apply")) = 2
  /\ Len(summaries) = 2
  /\ \A n \in 1..2 : summaries[n].ok

(* ------------------------------------------- vocabulary of the graph claims *)

\* buildPluginGraph was called on nodes
Built == graph.kind # "none"

\* the ids of the supplied plugins
Supplied == {nodes[i].instance.id : i \in 1..Len(nodes)}

DistinctIds == \A i, j \in 1..Len(nodes) : i # j => nodes[i].instance.id # nodes[j].instance.id

\* the ids the plugin kept for id (the last node supplied under it) depends on
PluginDepSet(id) ==
  {GetDependencies(ById(nodes)[id])[i] : i \in 1..Len(GetDependencies(ById(nodes)[id]))}

\* the declared dependencies that are not among the supplied plugins
MissingIds == UNION {PluginDepSet(id) : id \in Supplied} \ Supplied

RECURSIVE PluginDepClosure(_, _)
PluginDepClosure(S, n) ==
  LET T == S \cup UNION {PluginDepSet(x) : x \in S \cap Supplied}
  IN IF n = 0 \/ T = S THEN S ELSE PluginDepClosure(T, n - 1)

\* the ids plugin id depends on, directly or transitively
PluginTransDeps(id) == PluginDepClosure(PluginDepSet(id), Cardinality(PluginIds))

\* plugin id lies on a cycle of the dependency relation
OnCycle(id) == id \in Supplied /\ id \in PluginTransDeps(id)

PluginCycle == \E id \in Supplied : OnCycle(id)

OrderIds == {graph.order[i].instance.id : i \in 1..Len(graph.order)}

(* ------------------------------------------------------------------ C18 *)

\* C18: for nodes with distinct ids whose dependencies are all supplied and
\* acyclic, buildPluginGraph returns each input node exactly once, every
\* plugin after all the plugins it depends on.
C18_DependencyOrder ==
  (Built /\ DistinctIds /\ MissingIds = {} /\ ~PluginCycle) =>
     /\ graph.kind = "order"
     /\ Len(graph.order) = Len(nodes)
     /\ {graph.order[i] : i \in 1..Len(graph.order)} = {nodes[i] : i \in 1..Len(nodes)}
     /\ \A i \in 1..Len(graph.order) :
           \A d \in PluginDepSet(graph.order[i].instance.id) :
              \E j \in 1..(i - 1) : graph.order[j].instance.id = d

\* three plugins, the first supplied depends on the last supplied, which
\* depends on the second: the order returned is the input reversed at its ends
C18_Witness ==
  /\ graph.kind = "order"
  /\ Len(nodes) = 3
  /\ DistinctIds
  /\ PluginDepSet(nodes[1].instance.id) = {nodes[3].instance.id}
  /\ PluginDepSet(nodes[3].instance.id) = {nodes[2].instance.id}
  /\ graph.order = <<nodes[2], nodes[3], nodes[1]>>

(* ------------------------------------------------------------------ C19 *)

Omitted(n) == ~HasMethod(RunNodes[n], MethodOf(op))

\* the summary pushed for a plugin without the method
AbsentSummary(fn, id) ==
  IF fn = "runDetect" THEN [id |-> id, status |-> "unknown"]
  ELSE IF fn = "runApply" THEN [id |-> id, ok |-> TRUE, didChange |-> FALSE]
  ELSE [id |-> id, ok |-> TRUE]

Running == {id \in DOMAIN tasks : tasks[id].status = "running"}

\* number of executors and lifecycle calls in progress
InProgress == (IF pc = "await" THEN 1 ELSE 0) + (IF inCall THEN 1 ELSE 0)

AsRegistered ==
  [id \in DOMAIN tasks |->
     [task |-> tasks[id].task, status |-> "pending",
      result |-> Undefined, error |-> Undefined]]

\* number of tasks of the order that executeAll has started or skipped
Walked == IF pc = "await" THEN idx ELSE idx - 1

KeyPos(id) == CHOOSE i \in 1..Len(keys) : keys[i] = id

\* X and Y have the same priority and no dependencies, and X was registered
\* before Y
TiedPair(x, y) ==
  /\ Prio(x) = Prio(y)
  /\ KeyPos(x) < KeyPos(y)
  /\ Deps(tasks, x) = <<>>
  /\ Deps(tasks, y) = <<>>

\* W stands before X in the list sorted by priority, ties by registration
SortsBefore(w, x) ==
  Prio(w) > Prio(x) \/ (Prio(w) = Prio(x) /\ KeyPos(w) < KeyPos(x))

\* C24 as claimed: of two tasks with equal priority and no dependencies, the
\* one registered earlier is run first.
C24_AsClaimed ==
  \A x, y \in Registered : (TiedPair(x, y) /\ Processed(y)) => Processed(x)

\* C24: of two tasks with equal priority and no dependencies, the one
\* registered earlier is run first, provided the later one is not a direct or
\* transitive dependency of a task that the sort by priority, ties by
\* registration, puts before the earlier one.
C24_TiesByRegistrationOrder ==
  \A x, y \in Registered :
     (Processed(y) /\ TiedPair(x, y)
      /\ \A w \in Registered : SortsBefore(w, x) => y \notin TransDeps(w))
     => Processed(x)

\* three tasks of one priority: the first registered has completed, the
\* third runs, and the second, which depends on the third, waits for it
C24_Witness ==
  /\ Len(keys) = 3
  /\ TiedPair(keys[1], keys[3])
  /\ Prio(keys[2]) = Prio(keys[1])
  /\ keys[3] \in DepSet(keys[2])
  /\ tasks[keys[1]].status = "completed"
  /\ tasks[keys[3]].status = "running"
  /\ tasks[keys[2]].status = "pending"

(* ------------------------------------------------------------------ C25 *)

\* the ids of the supplied nodes, in input order
InputIds == [i \in 1..Len(nodes) |-> nodes[i].instance.id]

NoPluginDeps == \A i \in 1..Len(nodes) : GetDependencies(nodes[i]) = <<>>

IdsOf(seq) == {seq[i] : i \in 1..Len(seq)}

\* the depth-first post-order of a dependency relation without cycles and
\* without missing ids: PostOrder(id, done) lists what a visit of id emits
\* when the ids of done were emitted before it
RECURSIVE PostOrder(_, _)
RECURSIVE PostOrderAll(_, _)
PostOrder(id, done) ==
  IF id \in done THEN <<>>
  ELSE Append(PostOrderAll(GetDependencies(ById(nodes)[id]), done), id)

PostOrderAll(ids, done) ==
  IF ids = <<>> THEN <<>>
  ELSE LET first == PostOrder(Head(ids), done)
       IN first \o PostOrderAll(Tail(ids), done \cup IdsOf(first))

C26_EmptyRegistryIsNoOp ==
  [][(runs' = runs + 1 /\ DOMAIN tasks = {}) =>
        /\ returned' = [kind |-> "map", id |-> NoError, value |-> EmptyMap]
        /\ pc' = "idle"
        /\ invoked' = invoked
        /\ tasks' = EmptyMap
        /\ keys' = <<>>]_vars

\* a task was run and its map returned, the registry was cleared, and the
\* second executeAll call returned an empty map
C26_Witness ==
  /\ runs = 2
  /\ clears = 1
  /\ pc = "idle"
  /\ invoked # <<>>
  /\ tasks = EmptyMap
  /\ returned = [kind |-> "map", id |-> NoError, value |-> EmptyMap]

(* ------------------------------------------------------------------ C27 *)

\* an id no caller ever registers
UnknownId == "unknown"

\* C27: getStatus answers "not-found" exactly for the ids that has denies,
\* which are the ids that are not keys of the registry, and one of pending,
\* running, completed, failed for the others.
C27_NotFoundIffNotRegistered ==
  \A id \in TaskIds \cup {UnknownId} :
     /\ GetStatus(tasks, id) = "not-found" <=> ~Has(tasks, id)
     /\ Has(tasks, id) <=> \E i \in 1..Len(keys) : keys[i] = id
     /\ Has(tasks, id) =>
          GetStatus(tasks, id) \in {"pending", "running", "completed", "failed"}

\* one id was run and cleared away and is not found; another, registered
\* after the clear, is running
C27_Witness ==
  /\ clears = 1
  /\ \E a, b \in TaskIds :
        /\ Invocations(a) = 1
        /\ GetStatus(tasks, a) = "not-found"
        /\ GetStatus(tasks, b) = "running"

(* ------------------------------------------------------------------ C28 *)

\* C28: a clear call leaves no id registered, whatever state it is made in;
\* the executeAll call made on the cleared registry returns an empty map; a
\* register call made on it adds its task as pending, whether or not the id
\* was registered or run before; and an executeAll call that returns leaves
\* every registered task completed or failed, with its result in the map.
C28_ClearResets ==
  [][/\ clears' = clears + 1 =>
          \A id \in TaskIds \cup {UnknownId} :
             ~Has(tasks', id) /\ GetStatus(tasks', id) = "not-found"
     /\ (clears > 0 /\ runs' = runs + 1 /\ DOMAIN tasks = {}) =>
          returned' = [kind |-> "map", id |-> NoError, value |-> EmptyMap]
     /\ (clears > 0 /\ nregs' = nregs + 1 /\ DOMAIN tasks = {}) =>
          /\ Len(keys') = 1
          /\ DOMAIN tasks' = {keys'[1]}
          /\ tasks'[keys'[1]].status = "pending"
          /\ tasks'[keys'[1]].result = Undefined
     /\ (clears > 0 /\ pc = "loop" /\ pc' = "idle") =>
          \A id \in DOMAIN tasks' :
             /\ tasks'[id].status \in {"completed", "failed"}
             /\ id \in DOMAIN returned'.value]_vars

\* a task is registered and run, the registry is cleared, the id is
\* registered again and the second executeAll call runs its executor again
C28_Witness ==
  /\ clears = 1
  /\ runs = 2
  /\ nregs = 2
  /\ \E id \in DOMAIN tasks :
        /\ tasks[id].status = "running"
        /\ Invocations(id) = 2

(* ------------------------------------------------------------------ C30 *)

\* C30 as claimed: on a registry that is never cleared, the executor of a
\* task id is invoked at most once, however many executeAll calls are made.
C30_AtMostOncePerRegistry ==
  clears = 0 => \A id \in TaskIds : Invocations(id) <= 1

(* ------------------------------------------------------------------ C29 *)

\* the place of a registered id in the list of ids sorted by descending
\* priority, ties in registration order
RefRank(id) == Cardinality({w \in Registered : SortsBefore(w, id)}) + 1

\* that list
RefSeed == [i \in 1..Len(keys) |-> CHOOSE id \in Registered : RefRank(id) = i]

\* the reference traversal of a dependency relation without cycles:
\* RefPostOrder(id, done) lists what a visit of id emits when the ids of done
\* were emitted before it; an unregistered id emits nothing
RECURSIVE RefPostOrder(_, _)
RECURSIVE RefPostOrderAll(_, _)
RefPostOrder(id, done) ==
  IF id \in done \/ id \notin Registered THEN <<>>
  ELSE Append(RefPostOrderAll(Deps(tasks, id), done), id)

RefPostOrderAll(ids, done) ==
  IF ids = <<>> THEN <<>>
  ELSE LET first == RefPostOrder(Head(ids), done)
       IN first \o RefPostOrderAll(Tail(ids), done \cup IdsOf(first))

RefOrder == RefPostOrderAll(RefSeed, {})

\* C29: the order executeAll walks is the order of the reference algorithm,
\* and executeAll starts or skips the tasks in that order: a task is processed
\* only when all the tasks before it in the reference order are.
C29_OrderIsReferenceOrder ==
  Sorted =>
     LET ref == RefOrder
     IN /\ sortedTasks = ref
        /\ \A j \in 1..Len(ref) :
              Processed(ref[j]) => \A i \in 1..(j - 1) : Processed(ref[i])

\* three tasks of one priority, the first registered depends on the third and
\* the second in that order: they were run third, second, first
C29_Witness ==
  /\ ReturnedMap
  /\ Len(keys) = 3
  /\ Prio(keys[1]) = Prio(keys[2])
  /\ Prio(keys[2]) = Prio(keys[3])
  /\ Deps(tasks, keys[1]) = <<keys[3], keys[2]>>
  /\ [i \in 1..Len(invoked) |-> invoked[i][1]] = <<keys[3], keys[2], keys[1]>>

(* ------------------------------------------------------------------ C31 *)

\* C31 as claimed: the runApply the apply command starts works on a registry:
\* it is rejected only by a throw of a plugin's method or of executeAll, and
\* once it is past phase 1 executeAll has been called on the registry.
C31_ApplyDrivesOneRegistry ==
  op = "runApply" =>
     /\ phase = "rejected" =>
           \E i \in 1..Len(calls) :
              calls[i].ev = "throw" /\ calls[i].method \in Methods \cup {"executeAll"}
     /\ phase \in {"execute", "apply", "returned"} => runs = 1

(* ------------------------------------------------------------------ C32 *)

\* C32: when buildPluginGraph has thrown, no orchestrator function is ever
\* entered: no detect, registerTasks, apply or validate is invoked, executeAll
\* is not called, and no task is registered or run.
C32_GraphErrorAbortsTheRun ==
  graph.kind = "error" =>
     /\ op = "none"
     /\ calls = <<>>
     /\ tasks = EmptyMap
     /\ nregs = 0
     /\ runs = 0
     /\ invoked = <<>>

\* two plugins that depend on each other: buildPluginGraph threw the error
\* of a cycle
C32_Witness ==
  /\ graph.kind = "error"
  /\ graph.error.type = "cyclic"
  /\ Len(nodes) = 2
  /\ calls = <<>>

(* ------------------------------------------------------------------ C33 *)

\* the plugin ids of the calls of a method, in the order of the calls
RECURSIVE CalledIds(_, _)
CalledIds(h, method) ==
  IF h = <<>> THEN <<>>
  ELSE IF Head(h).ev = "call" /\ Head(h).method = method
       THEN <<Head(h).id>> \o CalledIds(Tail(h), method)
       ELSE CalledIds(Tail(h), method)

\* the ids of the order buildPluginGraph returned
OrderSeq == [i \in 1..Len(graph.order) |-> graph.order[i].instance.id]

IsPrefix(s, t) == Len(s) <= Len(t) /\ s = SubSeq(t, 1, Len(s))

\* C33: runApply invokes registerTasks and apply plugin by plugin in the order
\* buildPluginGraph returned; when a plugin's apply is invoked, the apply of
\* every plugin it depends on has returned; and the list runApply returns has
\* one entry per plugin, in that order.
C33_ApplyFollowsGraphOrder ==
  op = "runApply" =>
     /\ IsPrefix(CalledIds(calls, "registerTasks"), OrderSeq)
     /\ IsPrefix(CalledIds(calls, "apply"), OrderSeq)
     /\ \A i \in Calls("call", "apply") :
           \A d \in PluginDepSet(calls[i].id) :
              \E j \in 1..(i - 1) :
                 /\ calls[j].method = "apply"
                 /\ calls[j].id = d
                 /\ calls[j].ev \in {"ok", "notok"}
     /\ phase = "returned" =>
           [i \in 1..Len(summaries) |-> summaries[i].id] = OrderSeq

\* the first plugin supplied depends on the second: runApply returned after
\* it applied the second, then the first
C33_Witness ==
  /\ Returned("runApply")
  /\ Len(nodes) = 2
  /\ GetDependencies(nodes[1]) = <<nodes[2].instance.id>>
  /\ CalledIds(calls, "apply") = <<nodes[2].instance.id, nodes[1].instance.id>>
  /\ Len(summaries) = 2

(* ------------------------------------------------------------------ C34 *)

\* C34: the executeAll call throws the error of a cycle exactly when dependsOn
\* has a cycle among the registered tasks, and the id it names lies on one;
\* two tasks that depend on the same task, and ids nobody registered, never
\* make it throw.
C34_NoFalseCycle ==
  runs = 1 =>
     /\ returned.kind = "error" <=> HasCycle
     /\ returned.kind = "error" => returned.id \in TransDeps(returned.id)
     /\ ~HasCycle => returned.kind = IF pc = "idle" THEN "map" ELSE "none"

\* two tasks depend on a third, which is visited again for the second of
\* them: executeAll returned its map and the three tasks completed
C34_Witness ==
  /\ ReturnedMap
  /\ \E a, b, c \in Registered :
        /\ b # c
        /\ DepSet(b) = {a}
        /\ DepSet(c) = {a}
        /\ \A t \in {a, b, c} : tasks[t].status = "completed"

(* ------------------------------------------------------------------ C35 *)

\* C35: when the first executeAll call has returned its map, every registered
\* task is completed or failed, completed exactly when its result has
\* ok = true, and getResult gives for it the entry of the returned map.
C35_TerminalAfterReturn ==
  ReturnedMap =>
     \A id \in Registered :
        /\ GetStatus(tasks, id) \in {"completed", "failed"}
        /\ GetResult(tasks, id) # Undefined
        /\ GetStatus(tasks, id) = "completed" <=> GetResult(tasks, id)[1].ok
        /\ id \in DOMAIN returned.value
        /\ GetResult(tasks, id) = Some(returned.value[id])

\* executeAll returned: one task completed, one returned ok = false, and one
\* was skipped because it depends on that one
C35_Witness ==
  /\ ReturnedMap
  /\ \E a, b, c \in Registered :
        /\ GetStatus(tasks, a) = "completed"
        /\ GetResult(tasks, b) = Some(ExecutorResult("notok"))
        /\ b \in DepSet(c)
        /\ GetResult(tasks, c) = Some(DependenciesFailed)
        /\ GetStatus(tasks, c) = "failed"

(* ------------------------------------------------------------------ C36 *)

\* C36: a task whose executor is or was invoked has all its registered
\* dependencies completed: none of them is pending, running or failed when
\* the executor is started, nor afterwards.
C36_DependenciesCompletedAtStart ==
  \A b \in Registered :
     (tasks[b].status = "running" \/ Invocations(b) > 0) =>
        \A a \in DepSet(b) : tasks[a].status = "completed"

\* B depends on A and is running, A completed; a third task failed before
C36_Witness ==
  \E a, b, c \in Registered :
     /\ DepSet(b) = {a}
     /\ tasks[a].status = "completed"
     /\ tasks[b].status = "running"
     /\ Invocations(b) = 1
     /\ tasks[c].status = "failed"

(* ------------------------------------------------------------------ C37 *)

\* the changes of status the claim allows
StatusSteps ==
  {<<"pending", "running">>, <<"running", "completed">>, <<"running", "failed">>,
   <<"pending", "failed">>}

\* C37: in every step, an entry of the registry stays, and its status either
\* stays, with its result, or goes from pending to running, from running to
\* completed or failed, or from pending to failed with the "Dependencies
\* failed" result; a step that changes a status is a step of the loop of
\* executeAll, never a register call or the call of executeAll itself.
C37_StatusLifecycle ==
  [][\A id \in DOMAIN tasks :
        /\ id \in DOMAIN tasks'
        /\ tasks'[id].task = tasks[id].task
        /\ \/ /\ tasks'[id].status = tasks[id].status
              /\ tasks'[id].result = tasks[id].result
           \/ /\ <<tasks[id].status, tasks'[id].status>> \in StatusSteps
              /\ pc \in {"loop", "await"}
              /\ nregs' = nregs
              /\ runs' = runs
              /\ <<tasks[id].status, tasks'[id].status>> = <<"pending", "failed">> =>
                    tasks'[id].result = Some(DependenciesFailed)]_vars

\* an id was registered twice; one task went from pending over running to
\* failed, the other, which depends on it, from pending to failed
C37_Witness ==
  /\ ReturnedMap
  /\ nregs > Len(keys)
  /\ \E a, c \in Registered :
        /\ tasks[a].status = "failed" /\ Invocations(a) = 1
        /\ tasks[c].status = "failed" /\ Invocations(c) = 0

(* ------------------------------------------------------------------ C38 *)

\* the task was registered after executeAll was called
Late(id) == tasks[id].task.executor = LateCaller

\* C38: a task registered after executeAll has computed its order is not in
\* that order, its executor is not invoked, it has no entry in the map being
\* built nor in the map returned, and it stays pending without a result.
C38_LateTaskIsNotRun ==
  \A id \in Registered :
     Late(id) =>
        /\ \A i \in 1..Len(sortedTasks) : sortedTasks[i] # id
        /\ Invocations(id) = 0
        /\ id \notin DOMAIN results
        /\ id \notin DOMAIN returned.value
        /\ tasks[id].status = "pending"
        /\ tasks[id].result = Undefined

\* one task was registered before the call and completed; another was
\* registered after the call and is pending when executeAll has returned a
\* map with the first task only
C38_Witness ==
  /\ ReturnedMap
  /\ Len(keys) = 2
  /\ ~Late(keys[1])
  /\ Late(keys[2])
  /\ tasks[keys[1]].status = "completed"
  /\ tasks[keys[2]].status = "pending"
  /\ DOMAIN returned.value = {keys[1]}

(* ------------------------------------------------------------------ C39 *)

\* C39: when every awaited executor and lifecycle method settles, an
\* executeAll call ends: on a registry with a cycle it has thrown, otherwise
\* it returns its map with every registered task completed or failed and no
\* executor invoked twice; and a runApply call ends: it returns, or it is
\* rejected by a throw.
C39_Terminates ==
  /\ (runs = 1) ~>
        (/\ pc = "idle"
         /\ HasCycle \/ (/\ returned.kind = "map"
                         /\ \A id \in Registered :
                               Terminal(id) /\ Invocations(id) <= 1))
  /\ (op = "runApply") ~> (phase = "returned" \/ (phase = "rejected" /\ LastIsThrow))

\* runApply has returned after an executeAll call in which the first
\* executor threw and the tasks that depend on it were skipped
C39_Witness ==
  /\ Returned("runApply")
  /\ Len(keys) = 3
  /\ Len(invoked) = 1
  /\ ExecutorThrew(keys[1])
  /\ \A id \in Registered : Terminal(id)

(* ------------------------------------------------------------------ C40 *)

\* the place in the input of the last node supplied under id
LastSupplied(id) ==
  CHOOSE i \in 1..Len(nodes) :
    /\ nodes[i].instance.id = id
    /\ \A j \in 1..Len(nodes) : nodes[j].instance.id = id => j <= i

\* the places in the returned order that hold a node of id
PlacesOf(id) == {i \in 1..Len(graph.order) : graph.order[i].instance.id = id}

====
